---- MODULE Spec2Model ----
(***************************************************************************)
(* Model of the authorization-and-floor-control subsystem of the meeting   *)
(* fork of jitsi-meet:                                                     *)
(*   - the Speaker Floor Coordinator: the redux middleware and reducer of  *)
(*     features/meeting-mode, as run by one connected peer against its     *)
(*     local view of the session (SpecFloor);                              *)
(*   - the same middleware run by every peer of a session, with the track  *)
(*     events and mute commands between them in flight (SpecPeers);        *)
(*   - the Role Authorization Guard: the prosody hooks of                  *)
(*     mod_muc_allowners.lua and mod_muc_wait_for_host.lua (SpecGuard).    *)
(***************************************************************************)
EXTENDS Integers, Sequences, FiniteSets, TLC

\* ------------------------------------------------------------------ bounds

\* Participants in the peer's view: the local one and the remote ones.
NumParticipants == 3
\* The clock advances MaxTicks times.
MaxTicks == 1
\* Participants holding an approval at the same time.
MaxApproved == 1
\* Participants with a raised hand at the same time.
MaxRaisedHands == 1
\* Bare JIDs known to the room of the role guard.
NumJids == 2
\* Remote participants that leave the session (they do not come back).
MaxLeft == 1

\* --------------------------------------------------------- program constants

\* middleware.ts:265 / 449: const UNMUTE_COOLDOWN_MS = 2000
UNMUTE_COOLDOWN_MS == 2000
\* reducer INITIAL_STATE.currentSpeaker: null (also the falsy speakerId)
Null == 0

Ids == 1..NumParticipants
\* getLocalParticipant(state).id: the peer's own participant
LocalId == CHOOSE i \in Ids : \A j \in Ids : i <= j
\* getRemoteParticipants(state): everybody else
RemoteIds == Ids \ {LocalId}

\* Date.now(): the clock starts well after the epoch, so that a lastUnmuteTime of 0
\* is always older than the cooldown; it advances in steps of one cooldown.
TickMs == UNMUTE_COOLDOWN_MS
StartTime == 2 * UNMUTE_COOLDOWN_MS
Times == {StartTime + k * TickMs : k \in 0..MaxTicks}

VARIABLES
    \* --- the peer's redux store (SpecFloor)
    mm,              \* state['features/meeting-mode']: enabled, timestamp, currentSpeaker, lastUnmuteTime
    muted,           \* isParticipantAudioMuted per participant (the peer's view of the audio tracks)
    approved,        \* participants approved for audio by the moderation-approval service
    raisedHand,      \* raisedHandTimestamp per participant (0: hand down)
    audioModeration, \* state['features/av-moderation'].audioModerationEnabled
    isAdmin,         \* localStorage.getItem('meetingRole') === 'ADMIN' on this peer
    now,             \* Date.now()
    left,            \* remote participants that have left the session
    \* --- what the last operation did (SpecFloor)
    pendingMutes,    \* remote participants with a remote-mute command in flight
    cmds,            \* the commands the last operation issued, in order
    op               \* the last operation: kind, participant, muted

floorVars == <<mm, muted, approved, raisedHand, audioModeration, isAdmin, now,
               left, pendingMutes, cmds, op>>

VARIABLES
    \* --- the room of the role guard and its configuration (SpecGuard)
    session,         \* per JID, what its session carries: see Kinds
    admins,          \* the JIDs for which util.is_admin holds (server administrators)
    roomType,        \* "healthcheck", "moderated" (token room matches), "moderatedOther", "open"
    disable_auto_owners, \* wait_for_host_disable_auto_owners
    affiliation,     \* room._affiliations per bare JID: "none" or "owner"
    role,            \* occupant.role: "none" (no occupant), "participant" or "moderator"
    block_moderator_promotion,      \* occupant._block_moderator_promotion
    joining_moderator_participants, \* the shared table of mod_muc_allowners
    has_host,        \* room.has_host
    stage,           \* per JID, where its admission stands: see Stages
    ev,              \* the last membership event: type, jid, vetoed
    log,             \* the "BLOCKED" and "SKIP" lines the last membership event logged
    presence         \* the item of the presence the last event broadcast, if it did

guardVars == <<session, admins, roomType, disable_auto_owners, affiliation, role,
               block_moderator_promotion, joining_moderator_participants, has_host,
               stage, ev, log, presence>>

\* The session as several peers run it (SpecPeers): every participant's client runs
\* the middleware against its own view.
VARIABLES
    peers,           \* peers[p]: the meeting-mode state of p's client and its view
                     \* of every participant's audio track (its own track included)
    trackQ,          \* trackQ[<<src, dst>>]: track events of src on their way to dst
    muteQ,           \* muteQ[p]: remote-mute commands on their way to p
    requested,       \* participants that have asked to unmute
    heard,           \* peers that a track event or a mute command has reached
    concurrent       \* no request so far was made by a peer in `heard`

peerVars == <<peers, trackQ, muteQ, requested, heard, concurrent>>

\* The mode broadcasts of several sentinel holders on their way to the other
\* participants (SpecBroadcast).
VARIABLES
    toggles,         \* the toggles made so far, in the order they were made: by, enabled,
                     \* timestamp (the value of the meetingMode participant property)
    inbox,           \* <<k, dst>>: the property update of toggle k has not reached dst
    view             \* view[s]: the enabled flag in the state of sentinel holder s

castVars == <<toggles, inbox, view>>

\* The speech-to-text recorder of the local participant (SpecStt).
VARIABLES
    localTrack,      \* the local audio track: "none", "muted" or "unmuted"
    trackListeners,  \* TRUE while the mute listener is registered on the local track
    meetingModeEnabled,      \* state['features/meeting-mode'].enabled as the recorder reads it
    service,         \* STTAudioService: isRecording, isStopping
    pendingUnmuteTimeouts,   \* the timeout stored for the track: "none", "unmute", "trackAdded"
    meetingModeStartTimeout, \* TRUE while the timeout of the mode handler is pending
    interrupted,     \* pending timeouts that outlived a mute or a removal of the track
    sttOp            \* the last step of the recorder: kind, interrupted

sttVars == <<localTrack, trackListeners, meetingModeEnabled, service, pendingUnmuteTimeouts,
             meetingModeStartTimeout, interrupted, sttOp>>

\* The hooks of the role guard run in an order that is not theirs (SpecOrder).
VARIABLES
    ran              \* the hooks that have run in the last admission, in the order they ran

orderVars == <<ran>>

auxVars == <<castVars, sttVars, orderVars>>

vars == <<floorVars, guardVars, peerVars, auxVars>>

\* No sentinel holder has toggled yet.
CastIdle ==
    /\ toggles = <<>>
    /\ inbox = {}
    /\ view = [s \in RemoteIds |-> FALSE]

SttOp(kind, late) == [kind |-> kind, interrupted |-> late]

\* The recorder before the local audio track exists.
SttIdle ==
    /\ localTrack = "none"
    /\ trackListeners = FALSE
    /\ meetingModeEnabled = FALSE
    /\ service = [isRecording |-> FALSE, isStopping |-> FALSE]
    /\ pendingUnmuteTimeouts = "none"
    /\ meetingModeStartTimeout = FALSE
    /\ interrupted = {}
    /\ sttOp = SttOp("none", FALSE)

AuxIdle == CastIdle /\ SttIdle /\ ran = <<>>

Jids == 1..NumJids

\* No session in prosody.full_sessions ("remote"); an anonymous session of the guest
\* domain ("guest"); a token session without a user context ("token"); a token
\* session whose context carries meetingRole "USER" or "ADMIN".
Kinds == {"remote", "guest", "token", "USER", "ADMIN"}

\* The admission of an occupant: outside the room, before each pre-join hook (by
\* priority), before each joined hook (by priority), admitted.
Stages == {"out", "pre60", "pre50", "pre0", "joined25", "joined20", "in"}

Event(type, jid, vetoed) == [type |-> type, jid |-> jid, vetoed |-> vetoed]

\* module:log('warn', '... BLOCKED ...', jid, tostring(meeting_role)): the JID the
\* entry names and the claim it prints ("unnamed": the message prints none).
Blocked(jid, claim) == [jid |-> jid, claim |-> claim, decision |-> "BLOCKED"]

\* module:log('info', 'SKIP ... promotion for %s ...', jid, ...): the promotion is skipped
\* for a JID whose claim is not ADMIN, or that has no token ("nil").
Skipped(jid, claim) == [jid |-> jid, claim |-> claim, decision |-> "SKIP"]

\* The <item/> of a presence's <x/>: item.attr.role and item.attr.affiliation.
Item(r, aff) == [role |-> r, affiliation |-> aff]

\* No <x/>, or an <x/> without <item/>; also: nothing was broadcast.
NoItem == Item("nil", "nil")

\* The room with nobody in it.
GuardIdle ==
    /\ affiliation = [j \in Jids |-> "none"]
    /\ role = [j \in Jids |-> "none"]
    /\ block_moderator_promotion = [j \in Jids |-> FALSE]
    /\ joining_moderator_participants = {}
    /\ has_host = FALSE
    /\ stage = [j \in Jids |-> "out"]
    /\ ev = Event("none", 0, FALSE)
    /\ log = {}
    /\ presence = NoItem

\* ---------------------------------------------------------------- commands

Cmd(type, id, key) == [type |-> type, id |-> id, key |-> key]

\* showNotification({ titleKey / descriptionKey })
Notify(key) == Cmd("notify", Null, key)

Has(seq, c) == \E i \in 1..Len(seq) : seq[i] = c

\* The store a handler runs against: store.getState() plus the outgoing commands.
Store == [mm |-> mm, muted |-> muted, approved |-> approved, raisedHand |-> raisedHand,
          audioModeration |-> audioModeration, isAdmin |-> isAdmin, now |-> now,
          left |-> left, pendingMutes |-> pendingMutes, cmds |-> <<>>,
          isLocalModerator |-> FALSE]

Emit(st, c) == [st EXCEPT !.cmds = Append(@, c)]

\* ----------------------------------------------------------------- reducer

INITIAL_STATE == [enabled |-> FALSE, timestamp |-> 0, currentSpeaker |-> Null,
                  lastUnmuteTime |-> 0]

\* toggleMeetingMode(): { type, enabled: undefined, timestamp: Date.now() }
toggleMeetingMode(dateNow) ==
    [type |-> "TOGGLE_MEETING_MODE", hasEnabled |-> FALSE, enabled |-> FALSE,
     timestamp |-> dateNow]

\* the action the middleware passes on: { type, enabled: newEnabled, timestamp }
ToggleTo(newEnabled, timestamp) ==
    [type |-> "TOGGLE_MEETING_MODE", hasEnabled |-> TRUE, enabled |-> newEnabled,
     timestamp |-> timestamp]

updateMeetingMode(enabled, timestamp) ==
    [type |-> "UPDATE_MEETING_MODE", enabled |-> enabled, timestamp |-> timestamp]

SetCurrentSpeaker(speakerId) ==
    [type |-> "SET_CURRENT_SPEAKER", speakerId |-> speakerId]

\* The reducer with a SET_CURRENT_SPEAKER that leaves lastUnmuteTime alone.
meetingMode_KeepsUnmuteTime(state, action, dateNow) ==
    CASE action.type = "TOGGLE_MEETING_MODE" ->
            LET newEnabled == IF action.hasEnabled THEN action.enabled ELSE ~state.enabled
            IN [state EXCEPT
                  !.enabled = newEnabled,
                  !.timestamp = IF newEnabled
                                THEN (IF action.timestamp # 0 THEN action.timestamp ELSE dateNow)
                                ELSE 0,
                  !.currentSpeaker = IF newEnabled THEN Null ELSE state.currentSpeaker]
      [] action.type = "UPDATE_MEETING_MODE" ->
            [state EXCEPT
                  !.enabled = action.enabled,
                  !.timestamp = action.timestamp,
                  !.currentSpeaker = IF action.enabled THEN Null ELSE state.currentSpeaker]
      [] action.type = "SET_CURRENT_SPEAKER" ->
            [state EXCEPT !.currentSpeaker = action.speakerId]
      [] OTHER -> state

\* The reducer of features/meeting-mode.
meetingMode(state, action, dateNow) ==
    CASE action.type = "TOGGLE_MEETING_MODE" ->
            LET newEnabled == IF action.hasEnabled THEN action.enabled ELSE ~state.enabled
            IN [state EXCEPT
                  !.enabled = newEnabled,
                  !.timestamp = IF newEnabled
                                THEN (IF action.timestamp # 0 THEN action.timestamp ELSE dateNow)
                                ELSE 0,
                  !.currentSpeaker = IF newEnabled THEN Null ELSE state.currentSpeaker]
      [] action.type = "UPDATE_MEETING_MODE" ->
            [state EXCEPT
                  !.enabled = action.enabled,
                  !.timestamp = action.timestamp,
                  !.currentSpeaker = IF action.enabled THEN Null ELSE state.currentSpeaker]
      [] action.type = "SET_CURRENT_SPEAKER" ->
            [state EXCEPT
                  !.currentSpeaker = action.speakerId,
                  !.lastUnmuteTime = IF action.speakerId # Null THEN dateNow ELSE 0]
      [] OTHER -> state

\* store.dispatch / next of a meeting-mode action reaching the reducer
Reduce(st, action) == [st EXCEPT !.mm = meetingMode(@, action, st.now)]

\* ------------------------------------------------- collaborators of the core

\* The rest of the SET_AUDIO_MUTED chain (base/media, base/tracks): the local
\* track takes the mute state of the action that reaches it.
nextSetAudioMuted(st, m) ==
    [st EXCEPT !.muted[LocalId] = m,
               !.cmds = Append(@, Cmd("localAudio", LocalId,
                                      IF m THEN "muted" ELSE "unmuted"))]

\* The rest of the TRACK_UPDATED chain (base/tracks reducer): the view of the
\* remote track takes the observed mute state.
nextTrackUpdated(st, id, m) == [st EXCEPT !.muted[id] = m]

\* A remote mute that is recorded but never sent.
muteRemoteParticipant_NotSent(st, id) == [st EXCEPT !.pendingMutes = @ \cup {id}]

\* muteRemoteParticipant(id, 'audio'): a remote-mute command sent to the transport,
\* not waited for.
muteRemoteParticipant(st, id) ==
    [st EXCEPT !.pendingMutes = @ \cup {id},
               !.cmds = Append(@, Cmd("muteRemote", id, "audio"))]

\* isParticipantApproved(id, AUDIO)(state) / isLocalParticipantApprovedFromState
isParticipantApproved(st, id) == id \in st.approved

\* isLocalParticipantModerator(state): the local participant's role is moderator
isLocalParticipantModerator(st) == st.isLocalModerator

\* -------------------------------------------------------------- middleware

\* getRemoteParticipants(state): the remote participants still in the session
getRemoteParticipants(st) == RemoteIds \ st.left

\* isAnyoneElseSpeaking(store, excludeParticipantId)
isAnyoneElseSpeaking(st, excludeParticipantId) ==
    \/ LocalId # excludeParticipantId /\ ~st.muted[LocalId]
    \/ \E id \in getRemoteParticipants(st) :
          id # excludeParticipantId /\ ~st.muted[id]

\* A SET_CURRENT_SPEAKER that stamps lastUnmuteTime also when the floor is given up.
setCurrentSpeaker_StampsAlways(st, speakerId) ==
    Emit([st EXCEPT !.mm.currentSpeaker = speakerId, !.mm.lastUnmuteTime = st.now],
         Cmd("SET_CURRENT_SPEAKER", speakerId, "dispatch"))

\* store.dispatch({ type: SET_CURRENT_SPEAKER, speakerId }); the dispatch is
\* recorded among the operation's commands at the place where it happens.
setCurrentSpeaker(st, speakerId) ==
    Emit(Reduce(st, SetCurrentSpeaker(speakerId)),
         Cmd("SET_CURRENT_SPEAKER", speakerId, "dispatch"))

\* A local mute that records the time of the mute as the floor's last change.
dispatchMute_StampsMute(st) ==
    IF ~st.mm.enabled
    THEN nextSetAudioMuted(st, TRUE)
    ELSE nextSetAudioMuted([st EXCEPT !.mm.currentSpeaker =
                                          IF @ = LocalId THEN Null ELSE @,
                                      !.mm.lastUnmuteTime = st.now], TRUE)

\* store.dispatch(setAudioMuted(true, true)): the SET_AUDIO_MUTED case with
\* muted = true, then the rest of the chain.
dispatchMute(st) ==
    IF ~st.mm.enabled
    THEN nextSetAudioMuted(st, TRUE)
    ELSE nextSetAudioMuted(
             IF st.mm.currentSpeaker = LocalId THEN setCurrentSpeaker(st, Null) ELSE st,
             TRUE)

\* The remote half of muteAllParticipantsIncludingLocal: remoteParticipants.forEach,
\* in the participants' order; `state` is the state read when the thunk started.
RECURSIVE muteRemotes(_, _, _, _)
muteRemotes(state, st, todo, exclude) ==
    IF todo = {} THEN st
    ELSE LET id == CHOOSE i \in todo : \A j \in todo : i <= j
             rest == todo \ {id}
         IN IF id \in exclude THEN muteRemotes(state, st, rest, exclude)
            ELSE LET s1 == muteRemoteParticipant(st, id)
                     shouldRejectModeration ==
                         ~(state.mm.enabled /\ state.audioModeration
                           /\ isParticipantApproved(state, id))
                     s2 == IF ~shouldRejectModeration THEN s1
                           ELSE IF state.audioModeration
                                THEN Emit(s1, Cmd("avModerationReject", id, "audio"))
                                ELSE Emit(s1, Cmd("rejectParticipantAudio", id, "audio"))
                 IN muteRemotes(state, s2, rest, exclude)

\* A mute-all that spares the remote participants approved to speak.
muteAllParticipantsIncludingLocal_SparesApproved(st, exclude) ==
    LET s1 == IF LocalId \notin exclude THEN dispatchMute(st) ELSE st
    IN muteRemotes(st, s1, getRemoteParticipants(st), exclude \cup st.approved)

\* muteAllParticipantsIncludingLocal(exclude, MEDIA_TYPE.AUDIO)
muteAllParticipantsIncludingLocal(st, exclude) ==
    LET s1 == IF LocalId \notin exclude THEN dispatchMute(st) ELSE st
    IN muteRemotes(st, s1, getRemoteParticipants(st), exclude)

\* A mute-all that reaches the local participant only.
forceMuteAllParticipants_LocalOnly(st, excludeIds) ==
    IF LocalId \notin excludeIds THEN dispatchMute(st) ELSE st

\* forceMuteAllParticipants(store, excludeIds)
forceMuteAllParticipants(st, excludeIds) == muteAllParticipantsIncludingLocal(st, excludeIds)

\* A grant that leaves the others as they are.
GrantFloor_NoMuteAll(st, id) ==
    Emit(setCurrentSpeaker(st, id), Notify("notify.singleSpeakerMode"))

\* A grant that sets the current speaker before it mutes the others.
GrantFloor_SpeakerFirst(st, id) ==
    Emit(forceMuteAllParticipants(setCurrentSpeaker(st, id), {id}),
         Notify("notify.singleSpeakerMode"))

\* A rejected local unmute: the notification, "force mute back", return next(action).
RejectLocalUnmute(st, key) ==
    nextSetAudioMuted(dispatchMute(Emit(st, Notify(key))), FALSE)

\* A granted unmute: mute everyone else, set the current speaker, notify.
GrantFloor(st, id) ==
    Emit(setCurrentSpeaker(forceMuteAllParticipants(st, {id}), id),
         Notify("notify.singleSpeakerMode"))

\* The local unmute with the cooldown applied to the ADMIN too.
LocalUnmuteInMeetingMode_CooldownForAdmin(st) ==
    IF isAnyoneElseSpeaking(st, LocalId)
       /\ st.now - st.mm.lastUnmuteTime < UNMUTE_COOLDOWN_MS
    THEN RejectLocalUnmute(st, "notify.unmuteCooldown")
    ELSE IF st.isAdmin
    THEN nextSetAudioMuted(GrantFloor(st, LocalId), FALSE)
    ELSE IF isAnyoneElseSpeaking(st, LocalId)
    THEN RejectLocalUnmute(st, "notify.someoneElseSpeaking")
    ELSE IF ~isParticipantApproved(st, LocalId) /\ ~(st.raisedHand[LocalId] > 0)
    THEN RejectLocalUnmute(st, "notify.raiseHandToUnmute")
    ELSE nextSetAudioMuted(GrantFloor(st, LocalId), FALSE)

\* The local unmute with the ADMIN's exemption extended to moderators.
LocalUnmuteInMeetingMode_ModeratorExempt(st) ==
    LET isAdminOrModerator == st.isAdmin \/ isLocalParticipantModerator(st)
    IN IF ~isAdminOrModerator /\ isAnyoneElseSpeaking(st, LocalId)
          /\ st.now - st.mm.lastUnmuteTime < UNMUTE_COOLDOWN_MS
       THEN RejectLocalUnmute(st, "notify.unmuteCooldown")
       ELSE IF isAdminOrModerator
       THEN nextSetAudioMuted(GrantFloor(st, LocalId), FALSE)
       ELSE IF isAnyoneElseSpeaking(st, LocalId)
       THEN RejectLocalUnmute(st, "notify.someoneElseSpeaking")
       ELSE IF ~isParticipantApproved(st, LocalId) /\ ~(st.raisedHand[LocalId] > 0)
       THEN RejectLocalUnmute(st, "notify.raiseHandToUnmute")
       ELSE nextSetAudioMuted(GrantFloor(st, LocalId), FALSE)

\* The local unmute with a cooldown that does not ask whether anyone else is
\* unmuted.
LocalUnmuteInMeetingMode_CooldownAlone(st) ==
    IF ~st.isAdmin /\ st.now - st.mm.lastUnmuteTime < UNMUTE_COOLDOWN_MS
    THEN RejectLocalUnmute(st, "notify.unmuteCooldown")
    ELSE IF st.isAdmin
    THEN nextSetAudioMuted(GrantFloor(st, LocalId), FALSE)
    ELSE IF isAnyoneElseSpeaking(st, LocalId)
    THEN RejectLocalUnmute(st, "notify.someoneElseSpeaking")
    ELSE IF ~isParticipantApproved(st, LocalId) /\ ~(st.raisedHand[LocalId] > 0)
    THEN RejectLocalUnmute(st, "notify.raiseHandToUnmute")
    ELSE nextSetAudioMuted(GrantFloor(st, LocalId), FALSE)

\* The local unmute with an occupancy check that trusts currentSpeaker: it rejects
\* when currentSpeaker names another participant.
LocalUnmuteInMeetingMode_SpeakerDecides(st) ==
    IF ~st.isAdmin /\ isAnyoneElseSpeaking(st, LocalId)
       /\ st.now - st.mm.lastUnmuteTime < UNMUTE_COOLDOWN_MS
    THEN RejectLocalUnmute(st, "notify.unmuteCooldown")
    ELSE IF st.isAdmin
    THEN nextSetAudioMuted(GrantFloor(st, LocalId), FALSE)
    ELSE IF st.mm.currentSpeaker # Null /\ st.mm.currentSpeaker # LocalId
    THEN RejectLocalUnmute(st, "notify.someoneElseSpeaking")
    ELSE IF ~isParticipantApproved(st, LocalId) /\ ~(st.raisedHand[LocalId] > 0)
    THEN RejectLocalUnmute(st, "notify.raiseHandToUnmute")
    ELSE nextSetAudioMuted(GrantFloor(st, LocalId), FALSE)

\* case SET_AUDIO_MUTED with muted = false, meeting mode enabled.
LocalUnmuteInMeetingMode(st) ==
    LET isLocalAdmin == st.isAdmin
        isLocalModerator == isLocalParticipantModerator(st)
        isAdminOrModerator == isLocalAdmin \/ isLocalModerator
        timeSinceLastUnmute == st.now - st.mm.lastUnmuteTime
        currentSpeaker == st.mm.currentSpeaker
        isAnyoneElseSpeakingNow == isAnyoneElseSpeaking(st, LocalId)
        isApproved == isParticipantApproved(st, LocalId)
        hasRaisedHand == st.raisedHand[LocalId] > 0
    IN IF ~isLocalAdmin /\ isAnyoneElseSpeakingNow
          /\ timeSinceLastUnmute < UNMUTE_COOLDOWN_MS
       THEN RejectLocalUnmute(st, "notify.unmuteCooldown")
       ELSE IF isLocalAdmin
       THEN nextSetAudioMuted(GrantFloor(st, LocalId), FALSE)
       ELSE IF currentSpeaker # Null /\ currentSpeaker # LocalId
               /\ isAnyoneElseSpeaking(st, LocalId)
       THEN RejectLocalUnmute(st, "notify.someoneElseSpeaking")
       ELSE IF ~(currentSpeaker # Null /\ currentSpeaker # LocalId)
               /\ isAnyoneElseSpeaking(st, LocalId)
       THEN RejectLocalUnmute(st, "notify.someoneElseSpeaking")
       ELSE IF ~isApproved /\ ~hasRaisedHand
       THEN RejectLocalUnmute(st, "notify.raiseHandToUnmute")
       ELSE nextSetAudioMuted(GrantFloor(st, LocalId), FALSE)

\* SET_AUDIO_MUTED arbitrated whether or not meeting mode is enabled.
SetAudioMutedCase_NoModeCheck(st, m) ==
    IF m THEN nextSetAudioMuted(
                  IF st.mm.currentSpeaker = LocalId THEN setCurrentSpeaker(st, Null) ELSE st,
                  TRUE)
    ELSE LocalUnmuteInMeetingMode(st)

\* case SET_AUDIO_MUTED
SetAudioMutedCase(st, m) ==
    IF ~st.mm.enabled THEN nextSetAudioMuted(st, m)
    ELSE IF m THEN dispatchMute(st)
    ELSE LocalUnmuteInMeetingMode(st)

\* TRACK_UPDATED without the approval / raised-hand gate.
TrackUpdatedCase_NoGate(st, participantId, isNowMuted) ==
    LET currentSpeaker == st.mm.currentSpeaker
        reject == nextTrackUpdated(muteRemoteParticipant(st, participantId),
                                   participantId, isNowMuted)
    IN IF ~st.mm.enabled THEN nextTrackUpdated(st, participantId, isNowMuted)
       ELSE IF isNowMuted /\ currentSpeaker = participantId
       THEN nextTrackUpdated(setCurrentSpeaker(st, Null), participantId, isNowMuted)
       ELSE IF isNowMuted THEN nextTrackUpdated(st, participantId, isNowMuted)
       ELSE IF isAnyoneElseSpeaking(st, participantId)
       THEN reject
       ELSE nextTrackUpdated(GrantFloor(st, participantId), participantId, isNowMuted)

\* case TRACK_UPDATED for the audio track of remote participant `participantId`
TrackUpdatedCase(st, participantId, isNowMuted) ==
    LET currentSpeaker == st.mm.currentSpeaker
        hasRaisedHand == st.raisedHand[participantId] > 0
        isApproved == isParticipantApproved(st, participantId)
        timeSinceLastUnmute == st.now - st.mm.lastUnmuteTime
        isAnyoneElseSpeakingNow == isAnyoneElseSpeaking(st, participantId)
        reject == nextTrackUpdated(muteRemoteParticipant(st, participantId),
                                   participantId, isNowMuted)
    IN IF ~st.mm.enabled THEN nextTrackUpdated(st, participantId, isNowMuted)
       ELSE IF isNowMuted /\ currentSpeaker = participantId
       THEN nextTrackUpdated(setCurrentSpeaker(st, Null), participantId, isNowMuted)
       ELSE IF isNowMuted THEN nextTrackUpdated(st, participantId, isNowMuted)
       ELSE IF ~isApproved /\ ~hasRaisedHand THEN reject
       ELSE IF isAnyoneElseSpeakingNow /\ timeSinceLastUnmute < UNMUTE_COOLDOWN_MS
       THEN reject
       ELSE IF currentSpeaker # Null /\ currentSpeaker # participantId
               /\ isAnyoneElseSpeaking(st, participantId)
       THEN reject
       ELSE IF ~(currentSpeaker # Null /\ currentSpeaker # participantId)
               /\ isAnyoneElseSpeaking(st, participantId)
       THEN reject
       ELSE nextTrackUpdated(GrantFloor(st, participantId), participantId, isNowMuted)

\* A mute of participant `p` as the middleware sees it: SET_AUDIO_MUTED with
\* muted = true for the local participant, TRACK_UPDATED with a muted track for a
\* remote one.
onParticipantMuted(st, p) ==
    IF p = LocalId THEN SetAudioMutedCase(st, TRUE) ELSE TrackUpdatedCase(st, p, TRUE)

\* case TOGGLE_MEETING_MODE; the session is connected (conference is defined).
ToggleMeetingModeCase(st) ==
    LET currentEnabled == st.mm.enabled
        newEnabled == ~currentEnabled
        timestamp == IF newEnabled THEN st.now ELSE 0
        s1 == Emit(st, Cmd("setLocalParticipantProperty", LocalId,
                           IF newEnabled THEN "meetingMode:enabled"
                                         ELSE "meetingMode:disabled"))
        s2 == IF newEnabled
              THEN Emit(forceMuteAllParticipants(s1, {}),
                        Cmd("requestEnableAudioModeration", Null, "audio"))
              ELSE Emit(setCurrentSpeaker(s1, Null),
                        Cmd("requestDisableAudioModeration", Null, "audio"))
        s3 == Emit(s2, Notify(IF newEnabled THEN "notify.meetingModeEnabledBy"
                                            ELSE "notify.meetingModeDisabledBy"))
    IN IF ~st.isAdmin
       THEN Reduce(st, toggleMeetingMode(st.now))
       ELSE Reduce(s3, ToggleTo(newEnabled, timestamp))

\* case UPDATE_MEETING_MODE (dispatched by the PARTICIPANT_UPDATED case for a
\* remote participant's meetingMode property)
UpdateMeetingModeCase(st, enabled, timestamp) ==
    LET result == Reduce(st, updateMeetingMode(enabled, timestamp))
    IN IF enabled
       THEN Emit(Emit(forceMuteAllParticipants(result, {}),
                      Cmd("requestEnableAudioModeration", Null, "audio")),
                 Notify("notify.meetingModeEnabled"))
       ELSE Emit(Emit(setCurrentSpeaker(result, Null),
                      Cmd("requestDisableAudioModeration", Null, "audio")),
                 Notify("notify.meetingModeDisabled"))

\* MuteAllButton._handleClick
MuteAllButtonClick(st) ==
    LET s1 == muteAllParticipantsIncludingLocal(st, {})
        s2 == IF st.mm.enabled
              THEN Emit(s1, Cmd("requestEnableAudioModeration", Null, "audio"))
              ELSE s1
    IN Emit(s2, Notify("notify.muteAllTitle"))

\* ------------------------------------------------------ the peer's operations

Op(kind, id, m) == [kind |-> kind, id |-> id, muted |-> m, moderator |-> FALSE]

\* The store after a handler has run.
CommitStore(r) ==
    /\ mm' = r.mm
    /\ muted' = r.muted
    /\ pendingMutes' = r.pendingMutes
    /\ cmds' = r.cmds
    /\ UNCHANGED <<approved, raisedHand, audioModeration, isAdmin, now, left>>

\* A handler of the peer ran; nothing else in the session moved.
Commit(r) ==
    /\ CommitStore(r)
    /\ UNCHANGED <<guardVars, peerVars, auxVars>>

\* Something outside the core changed the peer's view; no handler of the core ran.
Outside ==
    /\ cmds' = <<>>
    /\ op' = Op("outside", Null, FALSE)
    /\ UNCHANGED <<guardVars, peerVars, auxVars>>

\* The floor core at rest: nobody unmuted, meeting mode never enabled.
FloorIdle ==
    /\ mm = INITIAL_STATE
    /\ muted = [i \in Ids |-> TRUE]
    /\ approved = {}
    /\ raisedHand = [i \in Ids |-> 0]
    /\ audioModeration = FALSE
    /\ now = StartTime
    /\ left = {}
    /\ pendingMutes = {}
    /\ cmds = <<>>
    /\ op = Op("outside", Null, FALSE)

\* ------------------------------------------------------------ several peers

\* The participants that ask to unmute: both have their hand raised, nobody is
\* approved, nobody is ADMIN, audio moderation is off.
Requesters == {1, 2}

\* raisedHandTimestamp of every participant, as every peer sees it.
Hands == [i \in Ids |-> IF i \in Requesters THEN 1 ELSE 0]

\* Participant i as the client of peer p names it: p is its own local participant.
Swap(p, i) == IF i = p THEN LocalId ELSE IF i = LocalId THEN p ELSE i

\* Pairs of a participant and another peer that observes its track.
Links == {pair \in Ids \X Ids : pair[1] # pair[2]}

\* Every peer in meeting mode, everybody muted, the floor free, nothing in flight.
PeersIdle ==
    /\ peers = [p \in Ids |->
                  [mm |-> [INITIAL_STATE EXCEPT !.enabled = TRUE, !.timestamp = StartTime],
                   muted |-> [i \in Ids |-> TRUE]]]
    /\ trackQ = [pair \in Links |-> <<>>]
    /\ muteQ = [p \in Ids |-> 0]
    /\ requested = {}
    /\ heard = {}
    /\ concurrent = TRUE

\* store.getState() on the client of peer p.
PeerStore(p) ==
    [mm |-> [peers[p].mm EXCEPT !.currentSpeaker = Swap(p, @)],
     muted |-> [i \in Ids |-> peers[p].muted[Swap(p, i)]],
     approved |-> {}, raisedHand |-> [i \in Ids |-> Hands[Swap(p, i)]],
     audioModeration |-> FALSE, isAdmin |-> FALSE, now |-> StartTime,
     left |-> {}, pendingMutes |-> {}, cmds |-> <<>>, isLocalModerator |-> FALSE]

\* The remote mutes of participant q that the handler run on peer p sent.
MutesSent(p, r, q) ==
    Cardinality({k \in 1..Len(r.cmds) : r.cmds[k] = Cmd("muteRemote", Swap(p, q), "audio")})

\* The handler run on peer p ended in store r: p's client takes the new state, the
\* remote mutes it sent are on their way, and a change of p's own track is on its
\* way to every other peer. tq and mq are the queues without the message handled.
PeerCommit(p, r, tq, mq) ==
    LET nowMuted == r.muted[LocalId]
    IN /\ peers' = [peers EXCEPT ![p] =
                       [mm |-> [r.mm EXCEPT !.currentSpeaker = Swap(p, @)],
                        muted |-> [i \in Ids |-> r.muted[Swap(p, i)]]]]
       /\ trackQ' = [pair \in Links |->
                       IF pair[1] = p /\ nowMuted # peers[p].muted[p]
                       THEN Append(tq[pair], nowMuted) ELSE tq[pair]]
       /\ muteQ' = [q \in Ids |-> mq[q] + MutesSent(p, r, q)]
       /\ UNCHANGED <<floorVars, guardVars, auxVars>>

\* A participant asks to unmute on its own client (SET_AUDIO_MUTED, muted = false).
RequestUnmute ==
    \E p \in Requesters \ requested :
        /\ PeerCommit(p, SetAudioMutedCase(PeerStore(p), FALSE), trackQ, muteQ)
        /\ requested' = requested \cup {p}
        /\ concurrent' = (concurrent /\ p \notin heard)
        /\ UNCHANGED heard

\* The oldest track event of src on its way to dst arrives (TRACK_UPDATED on dst).
DeliverTrack ==
    \E pair \in Links :
        LET src == pair[1]
            dst == pair[2]
        IN /\ trackQ[pair] # <<>>
           /\ PeerCommit(dst,
                         TrackUpdatedCase(PeerStore(dst), Swap(dst, src), Head(trackQ[pair])),
                         [trackQ EXCEPT ![pair] = Tail(@)], muteQ)
           /\ heard' = heard \cup {dst}
           /\ UNCHANGED <<requested, concurrent>>

\* A remote-mute command arrives at its participant, whose client mutes the local
\* audio (SET_AUDIO_MUTED, muted = true).
DeliverMuteCommand ==
    \E p \in Ids :
        /\ muteQ[p] > 0
        /\ PeerCommit(p, SetAudioMutedCase(PeerStore(p), TRUE),
                      trackQ, [muteQ EXCEPT ![p] = @ - 1])
        /\ heard' = heard \cup {p}
        /\ UNCHANGED <<requested, concurrent>>

PeersInit ==
    /\ FloorIdle
    /\ isAdmin = FALSE
    /\ session = [j \in Jids |-> "guest"]
    /\ admins = {}
    /\ roomType = "open"
    /\ disable_auto_owners = FALSE
    /\ GuardIdle
    /\ PeersIdle
    /\ AuxIdle

PeersNext ==
    \/ RequestUnmute
    \/ DeliverTrack
    \/ DeliverMuteCommand

SpecPeers == PeersInit /\ [][PeersNext]_vars

\* ------------------------------------------------------ the peer of SpecFloor

FloorInit ==
    /\ FloorIdle
    /\ PeersIdle
    /\ AuxIdle
    /\ isAdmin \in BOOLEAN
    /\ session = [j \in Jids |-> "guest"]
    /\ admins = {}
    /\ roomType = "open"
    /\ disable_auto_owners = FALSE
    /\ GuardIdle

\* The local user presses the meeting mode button: dispatch(toggleMeetingMode()).
ToggleMeetingMode ==
    /\ Commit(ToggleMeetingModeCase(Store))
    /\ op' = Op("toggle", LocalId, FALSE)

\* The meetingMode property published by remote participant `id` arrives
\* (PARTICIPANT_UPDATED with participant.meetingMode, participant not local).
RemoteMeetingModeUpdate ==
    \E id \in getRemoteParticipants(Store), enabled \in BOOLEAN, t \in Times :
        /\ t <= now
        /\ Commit(UpdateMeetingModeCase(Store, enabled, IF enabled THEN t ELSE 0))
        /\ op' = Op("update", id, enabled)

\* The local mute intent changes: the user's request, or a mute command received.
LocalSetAudioMuted ==
    \E m \in BOOLEAN, moderator \in BOOLEAN :
        /\ Commit(SetAudioMutedCase([Store EXCEPT !.isLocalModerator = moderator], m))
        /\ op' = [Op("setAudioMuted", LocalId, m) EXCEPT !.moderator = moderator]

\* A remote participant's audio track is observed to change its mute state.
TrackUpdated ==
    \E id \in getRemoteParticipants(Store), m \in BOOLEAN :
        /\ Commit(TrackUpdatedCase(Store, id, m))
        /\ op' = Op("trackUpdated", id, m)

\* A remote-mute command reaches its participant, whose track is then observed muted.
DeliverMute ==
    \E id \in pendingMutes :
        LET st == [Store EXCEPT !.pendingMutes = @ \ {id}]
        IN /\ Commit(IF muted[id] THEN st ELSE TrackUpdatedCase(st, id, TRUE))
           /\ op' = Op("trackUpdated", id, TRUE)

\* The local user presses the mute-all button (rendered for ADMIN only).
MuteAllClick ==
    /\ isAdmin
    /\ Commit(MuteAllButtonClick(Store))
    /\ op' = Op("muteAll", LocalId, TRUE)

Tick ==
    /\ now + TickMs \in Times
    /\ now' = now + TickMs
    /\ Outside
    /\ UNCHANGED <<mm, muted, approved, raisedHand, audioModeration, isAdmin, left,
                   pendingMutes>>

\* The moderation-approval service grants or withdraws an approval.
ApprovalChanged ==
    \E id \in Ids \ left :
        /\ approved' = IF id \in approved THEN approved \ {id} ELSE approved \cup {id}
        /\ Cardinality(approved') <= MaxApproved
        /\ Outside
        /\ UNCHANGED <<mm, muted, raisedHand, audioModeration, isAdmin, now, left,
                       pendingMutes>>

\* A participant raises or lowers its hand.
RaisedHandChanged ==
    \E id \in Ids \ left :
        /\ raisedHand' = [raisedHand EXCEPT ![id] = IF @ > 0 THEN 0 ELSE now]
        /\ Cardinality({i \in Ids : raisedHand'[i] > 0}) <= MaxRaisedHands
        /\ Outside
        /\ UNCHANGED <<mm, muted, approved, audioModeration, isAdmin, now, left,
                       pendingMutes>>

\* The moderation-approval requirement for audio is switched on or off.
AudioModerationChanged ==
    /\ audioModeration' = ~audioModeration
    /\ Outside
    /\ UNCHANGED <<mm, muted, approved, raisedHand, isAdmin, now, left, pendingMutes>>

\* A remote participant leaves the session: it is no longer among the remote
\* participants, its track, approval, raised hand and pending mute are gone. The
\* middleware of the core has no case for the leave and the reducer none either.
ParticipantLeft ==
    \E p \in RemoteIds \ left :
        /\ Cardinality(left) < MaxLeft
        /\ left' = left \cup {p}
        /\ muted' = [muted EXCEPT ![p] = TRUE]
        /\ approved' = approved \ {p}
        /\ raisedHand' = [raisedHand EXCEPT ![p] = 0]
        /\ pendingMutes' = pendingMutes \ {p}
        /\ cmds' = <<>>
        /\ op' = Op("participantLeft", p, FALSE)
        /\ UNCHANGED <<mm, audioModeration, isAdmin, now>>
        /\ UNCHANGED <<guardVars, peerVars, auxVars>>

FloorNext ==
    \/ ToggleMeetingMode
    \/ RemoteMeetingModeUpdate
    \/ LocalSetAudioMuted
    \/ TrackUpdated
    \/ DeliverMute
    \/ MuteAllClick
    \/ Tick
    \/ ApprovalChanged
    \/ RaisedHandChanged
    \/ AudioModerationChanged
    \/ ParticipantLeft

SpecFloor == FloorInit /\ [][FloorNext]_vars

\* ----------------------------------------------------------- the role guard

\* The actor `true` of room:set_affiliation: a module acting for the server.
Module == 0

\* session.auth_token
auth_token(j) == session[j] \in {"token", "USER", "ADMIN"}

\* session.jitsi_meet_context_user and user_context.meetingRole ("nil": no context,
\* or no session at all)
meetingRole(j) == IF session[j] \in {"USER", "ADMIN"} THEN session[j] ELSE "nil"

\* prosody.full_sessions[occupant.jid]
full_session(j) == session[j] # "remote"

\* jid.host(o.bare_jid) == muc_domain_base: the main virtual host requires tokens,
\* guests use the anonymous guest domain (mod_muc_wait_for_host.lua, lines 5-6).
on_main_domain(j) == auth_token(j)

\* util.is_admin(jid)
is_admin(j) == j \in admins

\* util.is_healthcheck_room(room.jid)
is_healthcheck_room == roomType = "healthcheck"

\* util.is_moderated(room.jid)
is_moderated == roomType \in {"moderated", "moderatedOther"}

\* room_name == session.jitsi_meet_room (or '*') and the subdomain matches
room_matches == roomType = "moderated"

\* The occupants room:each_occupant() yields: an occupant is stored in the room once
\* its pre-join event has passed.
Occupants == {j \in Jids : stage[j] \in {"joined25", "joined20", "in"}}

\* The room a hook runs against.
Room == [affiliation |-> affiliation, role |-> role,
         block |-> block_moderator_promotion,
         joining |-> joining_moderator_participants,
         has_host |-> has_host, occupants |-> Occupants, vetoed |-> FALSE,
         log |-> {}, x |-> NoItem]

\* The room with one more warning logged.
Warn(rm, entry) == [rm EXCEPT !.log = @ \cup {entry}]

\* A muc-pre-set-affiliation hook that blocks only against a session it can read:
\* an occupant without a session is let through.
pre_set_affiliation_BySessionOnly(rm, actor, jid, aff) ==
    IF aff # "owner" THEN aff
    ELSE IF is_admin(jid) \/ is_healthcheck_room THEN aff
    ELSE IF jid \notin rm.occupants
    THEN IF actor # Module /\ full_session(actor) /\ meetingRole(actor) # "ADMIN"
         THEN "nil"
         ELSE aff
    ELSE IF full_session(jid) /\ meetingRole(jid) # "ADMIN" THEN "nil" ELSE aff

\* mod_muc_allowners: the muc-pre-set-affiliation hook. Yields event.affiliation as
\* the hook leaves it ("nil": cleared).
pre_set_affiliation(rm, actor, jid, aff) ==
    IF aff # "owner" THEN aff
    ELSE IF is_admin(jid) \/ is_healthcheck_room THEN aff
    ELSE IF jid \notin rm.occupants
    THEN IF actor # Module /\ full_session(actor) /\ meetingRole(actor) # "ADMIN"
         THEN "nil"
         ELSE aff
    ELSE IF full_session(jid)
    THEN IF meetingRole(jid) # "ADMIN" THEN "nil" ELSE aff
    ELSE "nil"

\* A muc-set-role hook that blocks only against a session it can read.
muc_set_role_BySessionOnly(rm, jid, r) ==
    IF r # "moderator" THEN r
    ELSE IF is_admin(jid) \/ is_healthcheck_room THEN r
    ELSE IF full_session(jid) /\ meetingRole(jid) # "ADMIN" THEN "nil" ELSE r

\* mod_muc_allowners: the muc-set-role hook. Yields event.role as the hook leaves it.
muc_set_role(rm, jid, r) ==
    IF r # "moderator" THEN r
    ELSE IF is_admin(jid) \/ is_healthcheck_room THEN r
    ELSE IF full_session(jid)
    THEN IF meetingRole(jid) # "ADMIN" THEN "nil" ELSE r
    ELSE "nil"

\* mod_muc_allowners: the claim the muc-pre-set-affiliation hook prints when it
\* blocks: the actor's for a JID that is no occupant, else the occupant's.
pre_set_affiliation_claim(rm, actor, jid) ==
    IF jid \notin rm.occupants THEN meetingRole(actor)
    ELSE IF full_session(jid) THEN meetingRole(jid)
    ELSE "unnamed"

\* mod_muc_allowners: the claim the muc-set-role hook prints when it blocks.
muc_set_role_claim(jid) == IF full_session(jid) THEN meetingRole(jid) ELSE "unnamed"

\* room:set_affiliation(actor, jid, affiliation): the hooks run, a cleared value is a
\* veto; an occupant made owner becomes moderator.
set_affiliation(rm, actor, jid, aff) ==
    LET a == pre_set_affiliation(rm, actor, jid, aff)
    IN IF a = "nil"
       THEN Warn([rm EXCEPT !.vetoed = TRUE],
                 Blocked(jid, pre_set_affiliation_claim(rm, actor, jid)))
       ELSE [rm EXCEPT !.affiliation[jid] = a,
                       !.role[jid] = IF a = "owner" /\ jid \in rm.occupants
                                     THEN "moderator" ELSE @]

\* room:set_role(nick, role): the hooks run, a cleared value is a veto.
set_role(rm, jid, r) ==
    LET x == muc_set_role(rm, jid, r)
    IN IF x = "nil"
       THEN Warn([rm EXCEPT !.vetoed = TRUE], Blocked(jid, muc_set_role_claim(jid)))
       ELSE [rm EXCEPT !.role[jid] = x]

\* occupant.role == 'moderator' or room:get_affiliation(occupant.bare_jid) == 'owner'
IsElevated(rm, j) == rm.role[j] = "moderator" \/ rm.affiliation[j] = "owner"

\* A correction that resets the role and leaves the affiliation.
RemoveElevation_RoleOnly(rm, j) == set_role(rm, j, "participant")

\* room:set_affiliation(true, bare_jid, "none"); room:set_role(nick, 'participant')
RemoveElevation(rm, j) ==
    set_role(set_affiliation(rm, Module, j, "none"), j, "participant")

\* mod_muc_wait_for_host: the muc-occupant-pre-join hook of priority 60.
wait_for_host_pre_join(rm, j) ==
    IF is_admin(j) \/ is_healthcheck_room THEN rm
    ELSE IF auth_token(j)
    THEN IF meetingRole(j) # "ADMIN"
         THEN LET r1 == [rm EXCEPT !.role[j] = "participant"]
                  r2 == IF r1.affiliation[j] = "owner"
                        THEN set_affiliation(Warn(r1, Blocked(j, meetingRole(j))),
                                             Module, j, "none")
                        ELSE r1
              IN [r2 EXCEPT !.block[j] = TRUE]
         ELSE rm
    ELSE [rm EXCEPT !.role[j] = "participant", !.block[j] = TRUE]

\* An allowners pre-join hook that marks the occupants it will not promote and leaves
\* the promotion of the others to the module that runs after it.
allowners_pre_join_MarkOnly(rm, j) ==
    IF is_healthcheck_room \/ is_admin(j) THEN rm
    ELSE IF ~auth_token(j) THEN Warn([rm EXCEPT !.block[j] = TRUE], Skipped(j, "nil"))
    ELSE IF is_moderated /\ ~room_matches THEN rm
    ELSE IF meetingRole(j) # "ADMIN"
    THEN Warn([rm EXCEPT !.block[j] = TRUE], Skipped(j, meetingRole(j)))
    ELSE rm

\* mod_muc_allowners: the muc-occupant-pre-join hook (priority 50).
allowners_pre_join(rm, j) ==
    IF is_healthcheck_room \/ is_admin(j) THEN rm
    ELSE IF ~auth_token(j) THEN Warn([rm EXCEPT !.block[j] = TRUE], Skipped(j, "nil"))
    ELSE IF is_moderated /\ ~room_matches THEN rm
    ELSE IF meetingRole(j) # "ADMIN"
    THEN Warn([rm EXCEPT !.block[j] = TRUE], Skipped(j, meetingRole(j)))
    ELSE [rm EXCEPT !.joining = @ \cup {j}]

\* mod_muc_wait_for_host: the muc-occupant-pre-join hook of default priority (the
\* host arrives, the lobby is dropped).
wait_for_host_host_arrival(rm, j) ==
    LET is_admin_user == auth_token(j) /\ meetingRole(j) = "ADMIN"
        r1 == [rm EXCEPT !.has_host = @ \/ \E o \in rm.occupants : on_main_domain(o)]
        r2 == [r1 EXCEPT !.role[j] = "participant"]
    IN IF is_admin(j) \/ is_healthcheck_room THEN rm
       ELSE IF rm.has_host /\ ~is_admin_user THEN rm
       ELSE IF (~r1.has_host \/ is_admin_user) /\ auth_token(j)
               /\ meetingRole(j) # "ADMIN"
       THEN IF r2.affiliation[j] = "owner"
            THEN set_affiliation(Warn(r2, Blocked(j, meetingRole(j))), Module, j, "none")
            ELSE r2
       ELSE r1

\* An allowners joined hook that corrects an elevation only against a claim it can
\* read: without a user context it leaves the occupant as it is.
allowners_joined_SkipWithoutClaim(rm, j) ==
    IF is_admin(j) \/ is_healthcheck_room THEN rm
    ELSE LET r1 == [rm EXCEPT !.block[j] = FALSE]
             r2 == [r1 EXCEPT !.joining = @ \ {j}]
         IN IF j \in r1.joining /\ meetingRole(j) = "ADMIN"
            THEN set_affiliation(r2, Module, j, "owner")
            ELSE IF IsElevated(r2, j) /\ meetingRole(j) = "USER"
                 THEN RemoveElevation(r2, j)
                 ELSE r2

\* An allowners joined hook that trusts the guards which ran before it: it only
\* promotes.
allowners_joined_PromoteOnly(rm, j) ==
    IF is_admin(j) \/ is_healthcheck_room THEN rm
    ELSE LET r1 == [rm EXCEPT !.block[j] = FALSE, !.joining = @ \ {j}]
         IN IF j \in rm.joining /\ meetingRole(j) = "ADMIN"
            THEN set_affiliation(r1, Module, j, "owner")
            ELSE r1

\* mod_muc_allowners: the muc-occupant-joined hook (priority 25).
allowners_joined(rm, j) ==
    IF is_admin(j) \/ is_healthcheck_room THEN rm
    ELSE LET r1 == IF rm.block[j]
                   THEN [(IF IsElevated(rm, j)
                          THEN RemoveElevation(Warn(rm, Blocked(j, "unnamed")), j)
                          ELSE rm)
                           EXCEPT !.block[j] = FALSE]
                   ELSE rm
             promote_to_moderator == j \in r1.joining
             r2 == [r1 EXCEPT !.joining = @ \ {j}]
             r3 == Warn(r2, Blocked(j, meetingRole(j)))
         IN IF promote_to_moderator
            THEN IF meetingRole(j) = "ADMIN"
                 THEN set_affiliation(r2, Module, j, "owner")
                 ELSE IF IsElevated(r3, j) THEN RemoveElevation(r3, j) ELSE r3
            ELSE IF IsElevated(r2, j) /\ meetingRole(j) # "ADMIN"
                 THEN RemoveElevation(r3, j)
                 ELSE r2

\* mod_muc_wait_for_host: the muc-occupant-joined hook (priority 20), registered
\* unless wait_for_host_disable_auto_owners is set.
wait_for_host_joined(rm, j) ==
    IF disable_auto_owners THEN rm
    ELSE IF is_admin(j) \/ is_healthcheck_room THEN rm
    ELSE IF ~is_moderated /\ auth_token(j)
    THEN IF meetingRole(j) = "ADMIN"
         THEN IF rm.affiliation[j] # "owner" /\ rm.role[j] # "moderator"
              THEN set_affiliation(rm, Module, j, "owner")
              ELSE rm
         ELSE LET r1 == Warn(rm, Skipped(j, meetingRole(j)))
              IN IF IsElevated(r1, j)
                 THEN RemoveElevation(Warn(r1, Blocked(j, meetingRole(j))), j)
                 ELSE r1
    ELSE IF ~is_moderated /\ ~auth_token(j)
    THEN LET r1 == Warn(rm, Skipped(j, "nil"))
         IN IF IsElevated(r1, j)
            THEN RemoveElevation(Warn(r1, Blocked(j, "unnamed")), j)
            ELSE r1
    ELSE rm

\* The presence the room builds for an occupant: its <item/> carries the stored role
\* and affiliation.
build_item(rm, j) == Item(rm.role[j], rm.affiliation[j])

\* A presence hook that rewrites the role and leaves the affiliation.
muc_broadcast_presence_RoleOnly(rm, j) ==
    IF is_admin(j) \/ is_healthcheck_room THEN rm
    ELSE IF rm.x = NoItem THEN rm
    ELSE IF (rm.x.role = "moderator" \/ rm.x.affiliation = "owner")
            /\ meetingRole(j) # "ADMIN"
    THEN Warn([rm EXCEPT !.x.role = "participant"], Blocked(j, meetingRole(j)))
    ELSE rm

\* mod_muc_allowners: the muc-broadcast-presence hook (priority 10), run on event.x.
muc_broadcast_presence(rm, j) ==
    IF is_admin(j) \/ is_healthcheck_room THEN rm
    ELSE IF rm.x = NoItem THEN rm
    ELSE IF (rm.x.role = "moderator" \/ rm.x.affiliation = "owner")
            /\ meetingRole(j) # "ADMIN"
    THEN Warn([rm EXCEPT !.x = Item("participant", "none")],
              Blocked(j, meetingRole(j)))
    ELSE rm

\* room:get_default_role(affiliation), the role a joining occupant starts with
get_default_role(aff) == IF aff = "owner" THEN "moderator" ELSE "participant"

\* ------------------------------------------------------- membership events

\* The room after a hook or a framework call has run.
CommitHooks(rm) ==
    /\ affiliation' = rm.affiliation
    /\ role' = rm.role
    /\ block_moderator_promotion' = rm.block
    /\ joining_moderator_participants' = rm.joining
    /\ has_host' = rm.has_host
    /\ log' = rm.log
    /\ presence' = rm.x
    /\ UNCHANGED <<session, admins, roomType, disable_auto_owners>>

\* A membership event was handled; nothing else in the session moved.
CommitRoom(rm) ==
    /\ CommitHooks(rm)
    /\ UNCHANGED <<floorVars, peerVars, auxVars>>

GuardInit ==
    /\ FloorIdle
    /\ PeersIdle
    /\ AuxIdle
    /\ isAdmin = FALSE
    /\ session \in [Jids -> Kinds]
    /\ admins \in SUBSET Jids
    /\ roomType \in {"healthcheck", "moderated", "moderatedOther", "open"}
    /\ disable_auto_owners \in BOOLEAN
    /\ GuardIdle

\* A presence to join arrives: the occupant is created with the default role of its
\* affiliation. One admission is handled at a time.
JoinRequested ==
    \E j \in Jids :
        /\ \A k \in Jids : stage[k] \in {"out", "in"}
        /\ stage[j] = "out"
        /\ CommitRoom([Room EXCEPT !.role[j] = get_default_role(affiliation[j]),
                                   !.block[j] = FALSE])
        /\ stage' = [stage EXCEPT ![j] = "pre60"]
        /\ ev' = Event("join", j, FALSE)

\* muc-occupant-pre-join, priority 60: mod_muc_wait_for_host
PreJoin60 ==
    \E j \in Jids :
        /\ stage[j] = "pre60"
        /\ CommitRoom(wait_for_host_pre_join(Room, j))
        /\ stage' = [stage EXCEPT ![j] = "pre50"]
        /\ ev' = Event("pre-join", j, FALSE)

\* muc-occupant-pre-join, priority 50: mod_muc_allowners
PreJoin50 ==
    \E j \in Jids :
        /\ stage[j] = "pre50"
        /\ CommitRoom(allowners_pre_join(Room, j))
        /\ stage' = [stage EXCEPT ![j] = "pre0"]
        /\ ev' = Event("pre-join", j, FALSE)

\* muc-occupant-pre-join, default priority: mod_muc_wait_for_host; the occupant is
\* then stored in the room.
PreJoin0 ==
    \E j \in Jids :
        /\ stage[j] = "pre0"
        /\ CommitRoom(wait_for_host_host_arrival(Room, j))
        /\ stage' = [stage EXCEPT ![j] = "joined25"]
        /\ ev' = Event("pre-join", j, FALSE)

\* muc-occupant-joined, priority 25: mod_muc_allowners
Joined25 ==
    \E j \in Jids :
        /\ stage[j] = "joined25"
        /\ CommitRoom(allowners_joined(Room, j))
        /\ stage' = [stage EXCEPT ![j] = "joined20"]
        /\ ev' = Event("joined", j, FALSE)

\* muc-occupant-joined, priority 20: mod_muc_wait_for_host; the admission is over.
Joined20 ==
    \E j \in Jids :
        /\ stage[j] = "joined20"
        /\ CommitRoom(wait_for_host_joined(Room, j))
        /\ stage' = [stage EXCEPT ![j] = "in"]
        /\ ev' = Event("joined", j, FALSE)

\* Another module, or a client, asks for owner affiliation for a JID: at any time,
\* also between the hooks of an admission.
AffiliationSetOwner ==
    \E actor \in {Module} \cup Jids, j \in Jids :
        LET rm == set_affiliation(Room, actor, j, "owner")
        IN /\ CommitRoom(rm)
           /\ ev' = Event("set_affiliation", j, rm.vetoed)
           /\ UNCHANGED stage

\* Another module, or a client, asks for the moderator role for an occupant.
RoleSetModerator ==
    \E j \in Occupants :
        LET rm == set_role(Room, j, "moderator")
        IN /\ CommitRoom(rm)
           /\ ev' = Event("set_role", j, rm.vetoed)
           /\ UNCHANGED stage

\* The room broadcasts the presence of an occupant, at any time once it is stored:
\* the hook runs on the <x/> the room built, and what it leaves is sent.
PresenceBroadcast ==
    \E j \in Occupants, withItem \in BOOLEAN :
        /\ CommitRoom(muc_broadcast_presence(
               [Room EXCEPT !.x = IF withItem THEN build_item(Room, j) ELSE NoItem], j))
        /\ ev' = Event("presence", j, FALSE)
        /\ UNCHANGED stage

\* An admitted occupant leaves: the occupant is gone, the affiliation stays.
OccupantLeft ==
    \E j \in Jids :
        /\ stage[j] = "in"
        /\ CommitRoom([Room EXCEPT !.role[j] = "none", !.block[j] = FALSE])
        /\ stage' = [stage EXCEPT ![j] = "out"]
        /\ ev' = Event("left", j, FALSE)

GuardNext ==
    \/ JoinRequested
    \/ PreJoin60
    \/ PreJoin50
    \/ PreJoin0
    \/ Joined25
    \/ Joined20
    \/ AffiliationSetOwner
    \/ RoleSetModerator
    \/ PresenceBroadcast
    \/ OccupantLeft

SpecGuard == GuardInit /\ [][GuardNext]_vars

\* ------------------------------------------------ properties of the role guard

\* The occupant's admission is over and it has not left.
Admitted(j) == stage[j] = "in"

\* The occupant's stored role or affiliation is elevated.
Elevated(j) == role[j] = "moderator" \/ affiliation[j] = "owner"

\* C1: an admitted participant has role moderator or affiliation owner only if the
\* meetingRole of its token is "ADMIN".
C1_ElevatedOnlyWithClaim ==
    \A j \in Jids : (Admitted(j) /\ Elevated(j)) => meetingRole(j) = "ADMIN"

\* C1, amended: the same for a participant that is not a server administrator, in a
\* room that is not a healthcheck room.
C1_ElevatedOnlyWithClaimUnlessExempt ==
    \A j \in Jids :
        (Admitted(j) /\ Elevated(j) /\ ~is_admin(j) /\ ~is_healthcheck_room)
            => meetingRole(j) = "ADMIN"

\* an elevation asked for an admitted participant without the claim was vetoed, and
\* next to it a participant with the claim is owner
C1_Witness ==
    \E j, k \in Jids :
        /\ ~is_healthcheck_room /\ ~is_admin(j) /\ ~is_admin(k)
        /\ Admitted(j) /\ meetingRole(j) # "ADMIN" /\ ~Elevated(j)
        /\ ev = Event("set_affiliation", j, TRUE)
        /\ Admitted(k) /\ meetingRole(k) = "ADMIN" /\ affiliation[k] = "owner"

\* The session of `j` carries no claim: no token, or a token without user context.
NoClaim(j) == meetingRole(j) = "nil"

\* The stages of an admission, in the order the hooks run.
NextStage(s) ==
    CASE s = "out" -> "pre60" [] s = "pre60" -> "pre50" [] s = "pre50" -> "pre0"
      [] s = "pre0" -> "joined25" [] s = "joined25" -> "joined20"
      [] s = "joined20" -> "in" [] s = "in" -> "out"

\* No hook refuses the join of a participant without a claim: its admission, once
\* requested, only moves on to the next hook.
JoinNotRefused ==
    [][\A j \in Jids :
          (NoClaim(j) /\ stage[j] # "in" /\ stage'[j] # stage[j])
              => stage'[j] = NextStage(stage[j]) /\ stage'[j] # "out"]_vars

ElevationRequested(j) ==
    ev'.type \in {"set_affiliation", "set_role"} /\ ev'.jid = j

\* The request of this step was vetoed and left what is stored for `j` as it was.
VetoedFor(j) ==
    ev'.vetoed /\ affiliation'[j] = affiliation[j] /\ role'[j] = role[j]

\* C15: an explicit affiliation-set to owner or role-set to moderator that targets
\* an occupant whose claim is not "ADMIN" (also when it has no session) is vetoed:
\* the requested value is cleared and nothing stored for the occupant changes.
C15_ElevationVetoed ==
    [][\A j \in Occupants :
          (ElevationRequested(j) /\ meetingRole(j) # "ADMIN") => VetoedFor(j)]_vars

\* C15, amended: the same for an occupant that is not a server administrator, in a
\* room that is not a healthcheck room.
C15_ElevationVetoedUnlessExempt ==
    [][\A j \in Occupants :
          (ElevationRequested(j) /\ meetingRole(j) # "ADMIN"
             /\ ~is_admin(j) /\ ~is_healthcheck_room) => VetoedFor(j)]_vars

\* owner affiliation was asked for an admitted occupant for which no session can be
\* resolved, and was vetoed
C15_Witness ==
    \E j \in Jids :
        /\ ~is_healthcheck_room /\ ~is_admin(j)
        /\ Admitted(j) /\ ~full_session(j)
        /\ ev = Event("set_affiliation", j, TRUE)
        /\ role[j] = "participant" /\ affiliation[j] = "none"

\* The step runs a joined interceptor for `j`.
JoinedHookRuns(j) ==
    stage[j] \in {"joined25", "joined20"} /\ stage'[j] # stage[j]

\* After the step `j` is stored with affiliation none and role participant.
ResetTo(j) == affiliation'[j] = "none" /\ role'[j] = "participant"

BroadcastElevated(j) ==
    /\ ev.type = "presence" /\ ev.jid = j
    /\ (presence.role = "moderator" \/ presence.affiliation = "owner")

\* C17: no presence that is broadcast carries role moderator or affiliation owner
\* for a participant whose claim is not "ADMIN", also while the stored role or
\* affiliation of that participant is elevated.
C17_PresenceNeverElevated ==
    \A j \in Jids : BroadcastElevated(j) => meetingRole(j) = "ADMIN"

\* C17, amended: the same for a participant that is not a server administrator, in
\* a room that is not a healthcheck room.
C17_PresenceNeverElevatedUnlessExempt ==
    \A j \in Jids :
        (BroadcastElevated(j) /\ ~is_admin(j) /\ ~is_healthcheck_room)
            => meetingRole(j) = "ADMIN"

\* the presence of an occupant without a token was broadcast while its stored
\* affiliation is owner, and carried role participant and affiliation none
C17_Witness ==
    \E j \in Jids :
        /\ ~is_healthcheck_room /\ ~is_admin(j) /\ ~auth_token(j)
        /\ ev = Event("presence", j, FALSE)
        /\ affiliation[j] = "owner"
        /\ presence = Item("participant", "none")
        /\ Blocked(j, "nil") \in log

\* ------------------------------------------------- properties of the floor core

\* Participants the peer sees with an unmuted audio track.
Unmuted == {i \in Ids : ~muted[i]}

\* Commands that mute a participant or refuse its audio.
IsMuteCmd(c) ==
    \/ c.type \in {"muteRemote", "avModerationReject", "rejectParticipantAudio"}
    \/ c = Cmd("localAudio", LocalId, "muted")

IsModerationCmd(c) ==
    c.type \in {"requestEnableAudioModeration", "requestDisableAudioModeration"}

NoMuteCmd(seq) == \A i \in 1..Len(seq) : ~IsMuteCmd(seq[i])

\* Every remote participant except `x` was sent a remote-mute command.
RemotesMutedExcept(seq, x) ==
    \A id \in (RemoteIds \ left) \ {x} : Has(seq, Cmd("muteRemote", id, "audio"))

LocalUnmuteRequest(o) == o.kind = "setAudioMuted" /\ o.id = LocalId /\ ~o.muted

RemoteUnmuteObserved(o) == o.kind = "trackUpdated" /\ ~o.muted

\* C2: on the peer, whenever meeting mode is enabled and no mute command is still
\* in flight, at most one participant is unmuted after an operation.
C2_AtMostOneUnmuted ==
    (mm.enabled /\ pendingMutes = {}) => Cardinality(Unmuted) <= 1

\* C3: a step that sets currentSpeaker to a participant sets it to one that is
\* approved for audio or has its hand raised, or to the local ADMIN.
C3_SpeakerIsAdmitted ==
    [][\A p \in Ids :
          (/\ mm'.currentSpeaker = p
           /\ \/ mm.currentSpeaker # p
              \/ Has(cmds', Notify("notify.singleSpeakerMode")))
          => \/ p \in approved
             \/ raisedHand[p] > 0
             \/ p = LocalId /\ isAdmin]_vars

\* a non-ADMIN local participant with a raised hand or an approval took the floor
C3_Witness ==
    /\ mm.enabled /\ ~isAdmin
    /\ LocalUnmuteRequest(op)
    /\ mm.currentSpeaker = LocalId
    /\ Has(cmds, Notify("notify.singleSpeakerMode"))

\* C4: a non-null currentSpeaker names an unmuted participant after every operation
\* (so an operation that mutes the speaker also clears currentSpeaker).
C4_SpeakerIsUnmuted ==
    mm.currentSpeaker # Null => ~muted[mm.currentSpeaker]

\* C5: a toggle by a peer that is not ADMIN leaves enabled, timestamp and
\* currentSpeaker unchanged and issues no mute or moderation command.
C5_NonAdminToggleIsNoOp ==
    [][(~isAdmin /\ op'.kind = "toggle")
          => /\ mm'.enabled = mm.enabled
             /\ mm'.timestamp = mm.timestamp
             /\ mm'.currentSpeaker = mm.currentSpeaker
             /\ \A i \in 1..Len(cmds') :
                    ~IsMuteCmd(cmds'[i]) /\ ~IsModerationCmd(cmds'[i])]_vars

\* C6: after the ADMIN's toggle has enabled meeting mode, the operation has muted
\* the requester, sent a mute to every remote participant and requested audio
\* moderation on; enabled is true, the timestamp is the time of the toggle and
\* currentSpeaker is null.
C6_AdminEnable ==
    (isAdmin /\ op.kind = "toggle" /\ mm.enabled)
        => /\ Has(cmds, Cmd("localAudio", LocalId, "muted"))
           /\ muted[LocalId]
           /\ RemotesMutedExcept(cmds, Null)
           /\ (RemoteIds \ left) \subseteq pendingMutes
           /\ Has(cmds, Cmd("requestEnableAudioModeration", Null, "audio"))
           /\ mm.timestamp = now
           /\ mm.currentSpeaker = Null

\* the ADMIN enabled meeting mode while remote participants were unmuted
C6_Witness ==
    /\ isAdmin /\ op.kind = "toggle" /\ mm.enabled
    /\ Cardinality(Unmuted \cap pendingMutes) = NumParticipants - 1

\* C7: a step that takes enabled from true to false leaves currentSpeaker null and
\* requests audio moderation off.
C7_DisableClearsSpeaker ==
    [][(mm.enabled /\ ~mm'.enabled)
          => /\ mm'.currentSpeaker = Null
             /\ Has(cmds', Cmd("requestDisableAudioModeration", Null, "audio"))]_vars

\* C8: while meeting mode is disabled a local unmute request or an observed remote
\* unmute goes through: the participant is unmuted, no mute command is issued and
\* the meeting-mode state is unchanged.
C8_FreeUnmuteWhenDisabled ==
    [][(~mm.enabled /\ (LocalUnmuteRequest(op') \/ RemoteUnmuteObserved(op')))
          => /\ ~muted'[op'.id]
             /\ NoMuteCmd(cmds')
             /\ pendingMutes' = pendingMutes
             /\ mm' = mm]_vars

\* a second participant unmuted while meeting mode was disabled
C8_Witness ==
    /\ ~mm.enabled
    /\ LocalUnmuteRequest(op) \/ RemoteUnmuteObserved(op)
    /\ ~muted[op.id]
    /\ Cardinality(Unmuted) >= 2

\* C9: in meeting mode the ADMIN's local unmute request is granted: the ADMIN is
\* unmuted and not muted back, every remote participant is sent a mute and
\* currentSpeaker is the ADMIN.
C9_AdminUnmuteGranted ==
    (mm.enabled /\ isAdmin /\ LocalUnmuteRequest(op))
        => /\ ~muted[LocalId]
           /\ ~Has(cmds, Cmd("localAudio", LocalId, "muted"))
           /\ RemotesMutedExcept(cmds, LocalId)
           /\ (RemoteIds \ left) \subseteq pendingMutes
           /\ mm.currentSpeaker = LocalId

\* the ADMIN, hand down and not approved, took the floor from an unmuted remote
\* participant
C9_Witness ==
    /\ mm.enabled /\ isAdmin /\ LocalUnmuteRequest(op)
    /\ LocalId \notin approved /\ raisedHand[LocalId] = 0
    /\ mm.currentSpeaker = LocalId
    /\ \E id \in RemoteIds : ~muted[id] /\ id \in pendingMutes

\* C10: in meeting mode, an unmute of a participant X that is approved or has its
\* hand raised, while nobody else is unmuted, is granted: X is unmuted, every other
\* participant is issued a mute, currentSpeaker is X and lastUnmuteTime is now.
\* X is the non-ADMIN local participant or a remote participant.
C10_FreeFloorGranted ==
    [][/\ (/\ mm.enabled /\ ~isAdmin /\ LocalUnmuteRequest(op')
           /\ LocalId \in approved \/ raisedHand[LocalId] > 0
           /\ Unmuted \subseteq {LocalId})
          => /\ ~muted'[LocalId]
             /\ ~Has(cmds', Cmd("localAudio", LocalId, "muted"))
             /\ RemotesMutedExcept(cmds', LocalId)
             /\ mm'.currentSpeaker = LocalId
             /\ mm'.lastUnmuteTime = now
       /\ \A x \in RemoteIds :
           (/\ mm.enabled /\ RemoteUnmuteObserved(op') /\ op'.id = x
            /\ x \in approved \/ raisedHand[x] > 0
            /\ Unmuted \subseteq {x})
           => /\ ~muted'[x]
              /\ ~Has(cmds', Cmd("muteRemote", x, "audio"))
              /\ Has(cmds', Cmd("localAudio", LocalId, "muted"))
              /\ RemotesMutedExcept(cmds', x)
              /\ mm'.currentSpeaker = x
              /\ mm'.lastUnmuteTime = now]_vars

\* a non-ADMIN local participant with its hand raised holds the floor it has just
\* been granted
C10_Witness ==
    /\ mm.enabled /\ ~isAdmin /\ LocalUnmuteRequest(op)
    /\ raisedHand[LocalId] > 0 /\ LocalId \notin approved
    /\ Unmuted = {LocalId}
    /\ mm.currentSpeaker = LocalId /\ mm.lastUnmuteTime = now

\* The notifications of a rejected local unmute.
RejectKeys == {"notify.unmuteCooldown", "notify.someoneElseSpeaking",
               "notify.raiseHandToUnmute"}

\* The step is a local unmute request in meeting mode that was rejected.
LocalUnmuteRejected ==
    /\ mm.enabled /\ LocalUnmuteRequest(op')
    /\ \E k \in RejectKeys : Has(cmds', Notify(k))

\* The step is an observed remote unmute in meeting mode that was rejected: the
\* participant was sent a remote mute.
RemoteUnmuteRejected ==
    /\ mm.enabled /\ RemoteUnmuteObserved(op')
    /\ Has(cmds', Cmd("muteRemote", op'.id, "audio"))

\* C11: a rejected unmute (local request or observed remote unmute) in meeting mode
\* leaves currentSpeaker unchanged.
C11_RejectKeepsSpeaker ==
    [][(LocalUnmuteRejected \/ RemoteUnmuteRejected)
          => mm'.currentSpeaker = mm.currentSpeaker]_vars

\* A remote participant holds the floor and is unmuted, and the cooldown started
\* by its unmute has not elapsed.
FloorHeldWithinCooldown ==
    /\ mm.enabled
    /\ mm.currentSpeaker \in RemoteIds /\ ~muted[mm.currentSpeaker]
    /\ now - mm.lastUnmuteTime < UNMUTE_COOLDOWN_MS

\* C12: in meeting mode, while another participant holds the floor and is unmuted,
\* an unmute request of the non-ADMIN local participant made less than
\* UNMUTE_COOLDOWN_MS after lastUnmuteTime is rejected with the cooldown
\* notification and the local participant is forced muted.
C12_CooldownRejects ==
    [][(FloorHeldWithinCooldown /\ ~isAdmin /\ LocalUnmuteRequest(op'))
          => /\ Has(cmds', Notify("notify.unmuteCooldown"))
             /\ muted'[LocalId]]_vars

\* C13: after a rejected local unmute in meeting mode the local participant's
\* audio is muted: the forced mute is the last change of its mute state.
C13_RejectedEndsMuted ==
    [][LocalUnmuteRejected => muted'[LocalId]]_vars

\* The step handles a mute of participant `p`: the local participant's
\* SET_AUDIO_MUTED with muted = true, or a remote track observed muted.
MuteHandled(p) ==
    /\ op'.kind \in {"setAudioMuted", "trackUpdated"}
    /\ op'.muted /\ op'.id = p

\* C18: in meeting mode, when participant p is muted: if p is the current speaker,
\* currentSpeaker becomes null and lastUnmuteTime 0; otherwise both are unchanged.
C18_MuteReleasesFloor ==
    [][\A p \in Ids :
          (mm.enabled /\ MuteHandled(p))
              => IF mm.currentSpeaker = p
                 THEN mm'.currentSpeaker = Null /\ mm'.lastUnmuteTime = 0
                 ELSE /\ mm'.currentSpeaker = mm.currentSpeaker
                      /\ mm'.lastUnmuteTime = mm.lastUnmuteTime]_vars

\* a participant that does not hold the floor was observed muted: the floor holder
\* is still the current speaker, unmuted, and the cooldown stamp is still set
C18_Witness ==
    /\ mm.enabled /\ op.kind = "trackUpdated" /\ op.muted /\ muted[op.id]
    /\ mm.currentSpeaker \notin {Null, op.id} /\ ~muted[mm.currentSpeaker]
    /\ mm.lastUnmuteTime = now

\* The store a later operation finds: the state `st`, `d` ms later.
Later(st, d) == [st EXCEPT !.cmds = <<>>, !.now = @ + d]

\* C19: handling the mute of participant p a second time, at once or later, with p
\* muted by the first handling, changes neither currentSpeaker nor lastUnmuteTime
\* from what the first handling left.
C19_SecondMuteChangesNothing ==
    \A p \in Ids, d \in {0, TickMs} :
        (op.kind \in {"setAudioMuted", "trackUpdated"} /\ op.muted /\ op.id = p)
            => LET again == onParticipantMuted(Later(Store, d), p)
               IN /\ again.mm.currentSpeaker = mm.currentSpeaker
                  /\ again.mm.lastUnmuteTime = mm.lastUnmuteTime

\* the local participant held the floor in meeting mode and its mute has been
\* handled: it is muted, the floor is free, and a second handling finds it so
C19_Witness ==
    /\ mm.enabled /\ op = Op("setAudioMuted", LocalId, TRUE)
    /\ muted[LocalId] /\ mm.currentSpeaker = Null /\ mm.lastUnmuteTime = 0
    /\ raisedHand[LocalId] > 0 /\ mm.timestamp # 0
    /\ cmds = <<Cmd("SET_CURRENT_SPEAKER", Null, "dispatch"),
               Cmd("localAudio", LocalId, "muted")>>

\* The commands `seq` mute exactly the participants outside `excludeIds`: the local
\* participant's audio is muted, every remote participant is sent a remote mute,
\* and no command mutes or refuses a participant in excludeIds.
MutesAllExcept(seq, excludeIds) ==
    /\ LocalId \notin excludeIds => Has(seq, Cmd("localAudio", LocalId, "muted"))
    /\ \A id \in (RemoteIds \ left) \ excludeIds :
          Has(seq, Cmd("muteRemote", id, "audio"))
    /\ \A i \in 1..Len(seq) : IsMuteCmd(seq[i]) => seq[i].id \notin excludeIds

\* C20: muteAllParticipantsIncludingLocal(excludeIds) mutes the local participant
\* unless it is in excludeIds, sends a remote mute to every remote participant not
\* in excludeIds, whether or not the local participant is ADMIN and whoever is
\* approved, and mutes nobody in excludeIds: for every excludeIds in every state,
\* and in the commands of a mute-all click and of a granted unmute.
C20_MuteAllExceptExcluded ==
    /\ \A excludeIds \in SUBSET Ids :
          MutesAllExcept(muteAllParticipantsIncludingLocal(Store, excludeIds).cmds,
                         excludeIds)
    /\ op.kind = "muteAll" => MutesAllExcept(cmds, {})
    /\ (mm.enabled /\ Has(cmds, Notify("notify.singleSpeakerMode")))
          => MutesAllExcept(cmds, {op.id})

\* an ADMIN's peer has granted the floor to an approved remote participant: the
\* ADMIN itself and the other remote participant were muted, the speaker was not
C20_Witness ==
    /\ mm.enabled /\ isAdmin /\ RemoteUnmuteObserved(op)
    /\ op.id \in approved /\ mm.currentSpeaker = op.id
    /\ Has(cmds, Notify("notify.singleSpeakerMode"))
    /\ Has(cmds, Cmd("localAudio", LocalId, "muted"))
    /\ \A id \in RemoteIds \ {op.id} : Has(cmds, Cmd("muteRemote", id, "audio"))
    /\ ~Has(cmds, Cmd("muteRemote", op.id, "audio"))

\* Commands that revoke a participant's approval to speak: the moderation reject
\* sent through the conference, or the local rejectParticipantAudio.
IsApprovalReject(c) == c.type \in {"avModerationReject", "rejectParticipantAudio"}

\* C21: no mute-all (on a toggle to enabled, a remote mode update, a granted unmute
\* or a mute-all click) revokes the approval of a participant that is approved to
\* speak: the rejects an operation issues name only participants that are not
\* approved, and never the participant a grant excludes.
C21_ApprovalNotRevoked ==
    [][\A i \in 1..Len(cmds') :
          IsApprovalReject(cmds'[i])
              => /\ cmds'[i].id \notin approved
                 /\ Has(cmds', Notify("notify.singleSpeakerMode"))
                       => cmds'[i].id # op'.id]_vars

\* C22: when the participant currentSpeaker names leaves the session, currentSpeaker
\* is cleared by the handling of the leave: in no state does currentSpeaker name a
\* participant that has left.
C22_SpeakerIsInSession == mm.currentSpeaker \notin left

\* The remote participants whose token carries the ADMIN claim. The claim of a
\* participant is known only to its own client (localStorage meetingRole): no
\* handler of the peer reads the claim of a remote participant.
RemoteAdmins == {2}

\* C23: in meeting mode, an observed unmute of a remote participant that holds the
\* ADMIN claim is never answered with a remote mute of that participant, whatever
\* its approval, raised hand, the cooldown and the floor: the others are muted and
\* currentSpeaker becomes the ADMIN.
C23_RemoteAdminNeverMuted ==
    [][(/\ mm.enabled /\ RemoteUnmuteObserved(op')
        /\ op'.id \in RemoteAdmins)
          => /\ ~Has(cmds', Cmd("muteRemote", op'.id, "audio"))
             /\ RemotesMutedExcept(cmds', op'.id)
             /\ mm'.currentSpeaker = op'.id]_vars

\* The command that mutes participant q: the forced mute of the local audio, or
\* the remote mute sent to q.
MuteOf(q) ==
    IF q = LocalId THEN Cmd("localAudio", LocalId, "muted")
    ELSE Cmd("muteRemote", q, "audio")

\* Position k of `seq` is the dispatch that sets the current speaker to p.
SetsSpeakerAt(seq, k, p) == seq[k] = Cmd("SET_CURRENT_SPEAKER", p, "dispatch")

\* C26: an operation that sets currentSpeaker to a participant p (the local grant,
\* the ADMIN's grant, the grant of an observed remote unmute) has, before it sets
\* it, issued a mute for every participant in the session other than p, and none
\* for p.
C26_MuteAllBeforeSpeakerSet ==
    [][\A p \in Ids, k \in 1..Len(cmds') :
          SetsSpeakerAt(cmds', k, p)
              => /\ \A q \in (Ids \ left) \ {p} :
                       \E j \in 1..(k - 1) : cmds'[j] = MuteOf(q)
                 /\ \A j \in 1..(k - 1) : cmds'[j] # MuteOf(p)]_vars

\* a remote participant was granted the floor while the local participant was
\* unmuted: the local mute and the remote mute of the third participant came first
C26_Witness ==
    /\ mm.enabled /\ RemoteUnmuteObserved(op) /\ op.id = 2
    /\ mm.currentSpeaker = 2
    /\ Len(cmds) >= 3 /\ SetsSpeakerAt(cmds, Len(cmds) - 1, 2)
    /\ Has(cmds, MuteOf(LocalId)) /\ Has(cmds, MuteOf(3))
    /\ muted[LocalId]

\* Some participant other than p has its audio unmuted.
OthersUnmuted(p) == Unmuted \ {p} # {}

\* C27: in meeting mode the occupancy check of a non-ADMIN unmute rejects exactly
\* when some other participant is unmuted at that moment, whatever currentSpeaker
\* is. A local request not already rejected by the cooldown gets the
\* someone-else-speaking notice iff another participant is unmuted; an observed
\* unmute of a remote participant that passed the approval gate is muted back iff
\* another participant is unmuted.
C27_OccupancyByUnmutedOnly ==
    [][/\ (mm.enabled /\ ~isAdmin /\ LocalUnmuteRequest(op'))
          => (Has(cmds', Notify("notify.someoneElseSpeaking"))
                 <=> /\ OthersUnmuted(LocalId)
                     /\ ~Has(cmds', Notify("notify.unmuteCooldown")))
       /\ (/\ mm.enabled /\ RemoteUnmuteObserved(op')
           /\ op'.id \in approved \/ raisedHand[op'.id] > 0)
          => (Has(cmds', Cmd("muteRemote", op'.id, "audio"))
                 <=> OthersUnmuted(op'.id))]_vars

\* a non-ADMIN local request was rejected by the occupancy check while
\* currentSpeaker was unset: a remote participant was unmuted
C27_Witness ==
    /\ mm.enabled /\ ~isAdmin /\ LocalUnmuteRequest(op)
    /\ Has(cmds, Notify("notify.someoneElseSpeaking"))
    /\ ~Has(cmds, Cmd("SET_CURRENT_SPEAKER", Null, "dispatch"))
    /\ mm.currentSpeaker = Null
    /\ \E id \in RemoteIds : ~muted[id]

\* Less than UNMUTE_COOLDOWN_MS have passed since lastUnmuteTime.
WithinCooldown == now - mm.lastUnmuteTime < UNMUTE_COOLDOWN_MS

\* C28: in meeting mode the cooldown rejects a non-ADMIN unmute only when another
\* participant is unmuted at that moment. A local request rejected with the
\* cooldown notice found another participant unmuted; a request made within the
\* cooldown window while nobody else is unmuted is not rejected by the cooldown,
\* and an observed remote unmute that passed the approval gate is then granted.
C28_CooldownOnlyWhenOccupied ==
    [][/\ (mm.enabled /\ LocalUnmuteRequest(op')
           /\ Has(cmds', Notify("notify.unmuteCooldown")))
          => OthersUnmuted(LocalId)
       /\ (/\ mm.enabled /\ ~isAdmin /\ LocalUnmuteRequest(op')
           /\ WithinCooldown /\ ~OthersUnmuted(LocalId))
          => ~Has(cmds', Notify("notify.unmuteCooldown"))
       /\ (/\ mm.enabled /\ RemoteUnmuteObserved(op')
           /\ op'.id \in approved \/ raisedHand[op'.id] > 0
           /\ WithinCooldown /\ ~OthersUnmuted(op'.id))
          => /\ ~Has(cmds', Cmd("muteRemote", op'.id, "audio"))
             /\ mm'.currentSpeaker = op'.id]_vars

\* a non-ADMIN local request was rejected by the cooldown: a remote participant
\* holds the floor unmuted and took it less than UNMUTE_COOLDOWN_MS ago
C28_Witness ==
    /\ mm.enabled /\ ~isAdmin /\ LocalUnmuteRequest(op)
    /\ Has(cmds, Notify("notify.unmuteCooldown"))
    /\ mm.currentSpeaker \in RemoteIds /\ ~muted[mm.currentSpeaker]
    /\ WithinCooldown

\* The local unmute request of the step was rejected with notification `key`: the
\* local audio is forced muted and the floor is not given to the requester.
RejectedWith(key) ==
    /\ Has(cmds', Notify(key))
    /\ Has(cmds', Cmd("localAudio", LocalId, "muted"))
    /\ ~Has(cmds', Cmd("SET_CURRENT_SPEAKER", LocalId, "dispatch"))
    /\ ~Has(cmds', Notify("notify.singleSpeakerMode"))

\* C29: in meeting mode a local participant that is a moderator without the ADMIN
\* claim has no exemption: its unmute request meets the cooldown, the occupancy
\* check and the approval / raised-hand gate, and ends as the same request of a
\* participant that is not a moderator would.
C29_ModeratorNotExempt ==
    [][(mm.enabled /\ ~isAdmin /\ LocalUnmuteRequest(op') /\ op'.moderator)
          => /\ (OthersUnmuted(LocalId) /\ WithinCooldown)
                    => RejectedWith("notify.unmuteCooldown")
             /\ (OthersUnmuted(LocalId) /\ ~WithinCooldown)
                    => RejectedWith("notify.someoneElseSpeaking")
             /\ (/\ ~OthersUnmuted(LocalId)
                 /\ LocalId \notin approved /\ raisedHand[LocalId] = 0)
                    => RejectedWith("notify.raiseHandToUnmute")
             /\ LET plain == SetAudioMutedCase(Store, FALSE)
                IN /\ mm' = plain.mm /\ muted' = plain.muted
                   /\ pendingMutes' = plain.pendingMutes
                   /\ cmds' = plain.cmds]_vars

\* a moderator without the ADMIN claim, not approved and with its hand down, asked
\* to unmute while the floor was free and was refused
C29_Witness ==
    /\ mm.enabled /\ ~isAdmin /\ LocalUnmuteRequest(op) /\ op.moderator
    /\ LocalId \notin approved /\ raisedHand[LocalId] = 0
    /\ Has(cmds, Notify("notify.raiseHandToUnmute"))
    /\ Unmuted \subseteq {LocalId}

\* C30: the peer changes `enabled` in response to the property published by a
\* remote participant only if that participant holds the ADMIN claim.
C30_ModeChangeOnlyFromAdmin ==
    [][(op'.kind = "update" /\ mm'.enabled # mm.enabled)
          => op'.id \in RemoteAdmins]_vars

\* --------------------------------------------------- properties of several peers

\* The participants whose audio track is unmuted on their own client.
Transmitting == {p \in Ids : ~peers[p].muted[p]}

\* Both requests were made and everything they caused has been delivered.
AllDelivered ==
    /\ requested = Requesters
    /\ \A pair \in Links : trackQ[pair] = <<>>
    /\ \A p \in Ids : muteQ[p] = 0

\* C24: two participants with their hands raised ask to unmute concurrently, each
\* on its own client, while the floor is free: once every mute command and every
\* track event that followed has been delivered to every peer, at most one
\* participant still has its audio unmuted.
C24_AtMostOneRemainsUnmuted ==
    (AllDelivered /\ concurrent) => Cardinality(Transmitting) <= 1

\* both asked before hearing of each other, both transmitted for a while, and
\* everything has been delivered to all three peers
C24_Witness ==
    /\ AllDelivered /\ concurrent
    /\ heard = Ids
    /\ \A p \in Requesters : peers[p].muted[p]

\* C25: for two concurrent unmute requests the outcome once everything is
\* delivered does not depend on the order of delivery: in every order nobody is
\* left unmuted, every peer sees everybody muted and the floor is free on every
\* peer.
C25_SameOutcomeInEveryOrder ==
    (AllDelivered /\ concurrent)
        => /\ Transmitting = {}
           /\ \A p, q \in Ids : peers[p].muted[q]
           /\ \A p \in Ids : peers[p].mm.currentSpeaker = Null

\* the outcome of two concurrent requests, with the third peer having seen both
\* participants unmute and mute again
C25_Witness ==
    /\ AllDelivered /\ concurrent
    /\ peers[3].mm.currentSpeaker = Null /\ peers[3].mm.lastUnmuteTime = 0
    /\ 3 \in heard
    /\ Transmitting = {}

\* ------------------------------------------ the hooks of the guard in any order

PreJoinHooks == {"wait_for_host:60", "allowners:50", "wait_for_host:0"}

JoinedHooks == {"allowners:25", "wait_for_host:20"}

\* The hook of that module and priority, run for `j`.
RunHook(h, rm, j) ==
    CASE h = "wait_for_host:60" -> wait_for_host_pre_join(rm, j)
      [] h = "allowners:50" -> allowners_pre_join(rm, j)
      [] h = "wait_for_host:0" -> wait_for_host_host_arrival(rm, j)
      [] h = "allowners:25" -> allowners_joined(rm, j)
      [] h = "wait_for_host:20" -> wait_for_host_joined(rm, j)

Ran == {ran[k] : k \in 1..Len(ran)}

\* A presence to join arrives, as in JoinRequested; no hook has run for it yet.
JoinRequestedAnyOrder ==
    \E j \in Jids :
        /\ \A k \in Jids : stage[k] \in {"out", "in"}
        /\ stage[j] = "out"
        /\ CommitHooks([Room EXCEPT !.role[j] = get_default_role(affiliation[j]),
                                    !.block[j] = FALSE])
        /\ stage' = [stage EXCEPT ![j] = "pre60"]
        /\ ev' = Event("join", j, FALSE)
        /\ ran' = <<>>
        /\ UNCHANGED <<floorVars, peerVars, castVars, sttVars>>

\* muc-occupant-pre-join: one of the hooks that have not run yet runs; after the last
\* one the occupant is stored in the room.
PreJoinAnyOrder ==
    \E j \in Jids, h \in PreJoinHooks \ Ran :
        /\ stage[j] = "pre60"
        /\ CommitHooks(RunHook(h, Room, j))
        /\ ran' = Append(ran, h)
        /\ stage' = [stage EXCEPT ![j] = IF Ran \cup {h} = PreJoinHooks
                                         THEN "joined25" ELSE @]
        /\ ev' = Event("pre-join", j, FALSE)
        /\ UNCHANGED <<floorVars, peerVars, castVars, sttVars>>

\* muc-occupant-joined: one of the hooks that have not run yet runs; after the last
\* one the admission is over.
JoinedAnyOrder ==
    \E j \in Jids, h \in JoinedHooks \ Ran :
        /\ stage[j] = "joined25"
        /\ CommitHooks(RunHook(h, Room, j))
        /\ ran' = Append(ran, h)
        /\ stage' = [stage EXCEPT ![j] = IF Ran \cup {h} = PreJoinHooks \cup JoinedHooks
                                         THEN "in" ELSE @]
        /\ ev' = Event("joined", j, FALSE)
        /\ UNCHANGED <<floorVars, peerVars, castVars, sttVars>>

OrderNext ==
    \/ JoinRequestedAnyOrder
    \/ PreJoinAnyOrder
    \/ JoinedAnyOrder
    \/ AffiliationSetOwner
    \/ RoleSetModerator
    \/ OccupantLeft

\* Every room configuration and every kind of session for the first participant,
\* next to a second participant that is a host or a guest.
OrderInit ==
    /\ GuardInit
    /\ admins \subseteq {1}
    /\ session[2] \in {"ADMIN", "guest"}

SpecOrder == OrderInit /\ [][OrderNext]_vars

\* ------------------------------------------- the broadcasts of the mode toggle

MaxToggles == 3

\* A remote sentinel holder clicks the toggle (TOGGLE_MEETING_MODE in its client): the new
\* value is the opposite of what its own state holds, the timestamp is the time of the
\* click for an enable and 0 for a disable, and the pair goes out as the holder's
\* meetingMode participant property to every other participant.
SentinelToggle ==
    \E s \in RemoteIds :
        LET newEnabled == ~view[s]
            timestamp == IF newEnabled THEN now ELSE 0
            k == Len(toggles) + 1
        IN /\ Len(toggles) < MaxToggles
           /\ toggles' = Append(toggles, [by |-> s, enabled |-> newEnabled,
                                          timestamp |-> timestamp])
           /\ view' = [view EXCEPT ![s] = newEnabled]
           /\ inbox' = inbox \cup {<<k, dst>> : dst \in Ids \ {s}}
           /\ UNCHANGED <<floorVars, guardVars, peerVars, sttVars, orderVars>>

\* The property updates of one holder reach a participant in the order they were sent;
\* those of different holders in any order.
NextFrom(pair) ==
    \A other \in inbox :
        ~ /\ other[2] = pair[2]
          /\ toggles[other[1]].by = toggles[pair[1]].by
          /\ other[1] < pair[1]

\* PARTICIPANT_UPDATED with a meetingMode property of a remote participant: the
\* receiver dispatches UPDATE_MEETING_MODE with the values the property carries.
DeliverBroadcast ==
    \E pair \in inbox :
        LET dst == pair[2]
            t == toggles[pair[1]]
        IN /\ NextFrom(pair)
           /\ inbox' = inbox \ {pair}
           /\ IF dst = LocalId
              THEN /\ CommitStore(UpdateMeetingModeCase(Store, t.enabled, t.timestamp))
                   /\ op' = Op("update", t.by, t.enabled)
                   /\ UNCHANGED view
              ELSE /\ view' = [view EXCEPT ![dst] = t.enabled]
                   /\ UNCHANGED floorVars
           /\ UNCHANGED <<toggles, guardVars, peerVars, sttVars, orderVars>>

BroadcastInit ==
    /\ FloorIdle
    /\ isAdmin = FALSE
    /\ session = [j \in Jids |-> "guest"]
    /\ admins = {}
    /\ roomType = "open"
    /\ disable_auto_owners = FALSE
    /\ GuardIdle
    /\ PeersIdle
    /\ AuxIdle

BroadcastNext ==
    \/ SentinelToggle
    \/ DeliverBroadcast
    \/ Tick

SpecBroadcast == BroadcastInit /\ [][BroadcastNext]_vars

\* Every broadcast made so far has reached dst.
Delivered(dst) == \A pair \in inbox : pair[2] # dst

\* C38: after a sequence of sentinel toggles, once their property broadcasts have all
\* reached the peer, in whatever order, the peer's enabled flag is the value the most
\* recent toggle set.
C38_LatestToggleWins ==
    (toggles # <<>> /\ Delivered(LocalId)) =>
        mm.enabled = toggles[Len(toggles)].enabled

\* ------------------------------------------------ the speech-to-text recorder

\* STTAudioService: a recording counts as active from startRecording until cleanup, so
\* also while a stop is completing.
isActive(svc) == svc.isRecording

startRecording(svc, track) ==
    IF svc.isRecording THEN svc
    ELSE IF track = "none" THEN svc
    ELSE [svc EXCEPT !.isRecording = TRUE]

\* stopRecording up to its await; cleanup runs when the recorder has stopped.
stopRecording(svc) ==
    IF ~svc.isRecording THEN svc ELSE [svc EXCEPT !.isStopping = TRUE]

cleanup(svc) == [isRecording |-> FALSE, isStopping |-> FALSE]

StopIfActive(svc) == IF isActive(svc) THEN stopRecording(svc) ELSE svc

SttCommit(track, listening, enabled, svc, pending, modeTimeout, late, o) ==
    /\ localTrack' = track
    /\ trackListeners' = listening
    /\ meetingModeEnabled' = enabled
    /\ service' = svc
    /\ pendingUnmuteTimeouts' = pending
    /\ meetingModeStartTimeout' = modeTimeout
    /\ interrupted' = late
    /\ sttOp' = o
    /\ UNCHANGED <<floorVars, guardVars, peerVars, castVars, orderVars>>

\* The pending timeouts a mute or a removal of the track leaves in place.
Outlived(pending, modeTimeout) ==
    (IF pending # "none" THEN {"pendingUnmute"} ELSE {})
        \cup (IF modeTimeout THEN {"meetingModeStart"} ELSE {})

\* TRACK_ADDED of the local audio track: the mute listener is registered, and a track
\* that is already unmuted in meeting mode gets a delayed start.
TrackAdded ==
    \E m \in {"muted", "unmuted"} :
        /\ localTrack = "none"
        /\ IF meetingModeEnabled /\ m = "unmuted"
           THEN SttCommit(m, TRUE, meetingModeEnabled, service, "trackAdded",
                          meetingModeStartTimeout, interrupted \ {"pendingUnmute"},
                          SttOp("trackAdded", FALSE))
           ELSE SttCommit(m, TRUE, meetingModeEnabled, service, pendingUnmuteTimeouts,
                          meetingModeStartTimeout, interrupted,
                          SttOp("trackAdded", FALSE))

\* muteChangedListener, the track has become muted.
TrackMuted ==
    /\ localTrack = "unmuted"
    /\ IF ~trackListeners
       THEN SttCommit("muted", trackListeners, meetingModeEnabled, service,
                      pendingUnmuteTimeouts, meetingModeStartTimeout, interrupted,
                      SttOp("muted", FALSE))
       ELSE SttCommit("muted", trackListeners, meetingModeEnabled,
                      StopIfActive(service), "none", meetingModeStartTimeout,
                      interrupted \cup Outlived("none", meetingModeStartTimeout),
                      SttOp("muted", FALSE))

\* muteChangedListener, the track has become unmuted.
TrackUnmuted ==
    /\ localTrack = "muted"
    /\ IF trackListeners /\ meetingModeEnabled /\ ~isActive(service)
       THEN SttCommit("unmuted", trackListeners, meetingModeEnabled, service,
                      "unmute", meetingModeStartTimeout,
                      interrupted \ {"pendingUnmute"}, SttOp("unmuted", FALSE))
       ELSE SttCommit("unmuted", trackListeners, meetingModeEnabled, service,
                      pendingUnmuteTimeouts, meetingModeStartTimeout, interrupted,
                      SttOp("unmuted", FALSE))

\* TRACK_REMOVED of the local audio track.
TrackRemoved ==
    /\ localTrack # "none"
    /\ SttCommit("none", FALSE, meetingModeEnabled, StopIfActive(service), "none",
                 meetingModeStartTimeout,
                 interrupted \cup Outlived("none", meetingModeStartTimeout),
                 SttOp("trackRemoved", FALSE))

\* CONFERENCE_LEFT: the recording is stopped, every listener is removed and every
\* timeout is cleared; the track itself stays until it is removed.
ConferenceLeft ==
    SttCommit(localTrack, FALSE, meetingModeEnabled, StopIfActive(service), "none",
              FALSE, {}, SttOp("conferenceLeft", FALSE))

\* TOGGLE_MEETING_MODE / UPDATE_MEETING_MODE after the reducer has stored `enabled`.
MeetingModeChanged ==
    \E enabled \in BOOLEAN :
        LET late == interrupted \ {"meetingModeStart"}
            o == SttOp(IF enabled THEN "modeEnabled" ELSE "modeDisabled", FALSE)
            schedule == localTrack = "unmuted" /\ ~isActive(service)
        IN IF ~enabled
           THEN SttCommit(localTrack, trackListeners, enabled, StopIfActive(service),
                          pendingUnmuteTimeouts, FALSE, late, o)
           ELSE SttCommit(localTrack, trackListeners, enabled, service,
                          pendingUnmuteTimeouts, schedule, late, o)

\* What the callback of a timeout in pendingUnmuteTimeouts checks before it starts the
\* recording: the one set by the unmute branch, and the one set by TRACK_ADDED.
UnmuteTimeoutAllows(kind) ==
    IF kind = "unmute"
    THEN localTrack = "unmuted" /\ ~isActive(service)
    ELSE localTrack = "unmuted" /\ ~isActive(service) /\ meetingModeEnabled

\* The timeout stored in pendingUnmuteTimeouts fires.
FirePendingUnmute ==
    /\ pendingUnmuteTimeouts # "none"
    /\ SttCommit(localTrack, trackListeners, meetingModeEnabled,
                 IF UnmuteTimeoutAllows(pendingUnmuteTimeouts)
                 THEN startRecording(service, localTrack) ELSE service,
                 "none", meetingModeStartTimeout, interrupted \ {"pendingUnmute"},
                 SttOp(pendingUnmuteTimeouts, "pendingUnmute" \in interrupted))

MeetingModeTimeoutAllows ==
    meetingModeEnabled /\ localTrack = "unmuted" /\ ~isActive(service)

\* meetingModeStartTimeout fires.
FireMeetingModeStart ==
    /\ meetingModeStartTimeout
    /\ SttCommit(localTrack, trackListeners, meetingModeEnabled,
                 IF MeetingModeTimeoutAllows
                 THEN startRecording(service, localTrack) ELSE service,
                 pendingUnmuteTimeouts, FALSE, interrupted \ {"meetingModeStart"},
                 SttOp("meetingModeStart", "meetingModeStart" \in interrupted))

\* The recorder has stopped (or the 2 s wait ran out): stopRecording resumes and cleans up.
StopCompletes ==
    /\ service.isStopping
    /\ SttCommit(localTrack, trackListeners, meetingModeEnabled, cleanup(service),
                 pendingUnmuteTimeouts, meetingModeStartTimeout, interrupted,
                 SttOp("stopped", FALSE))

SttInit ==
    /\ FloorIdle
    /\ isAdmin = FALSE
    /\ session = [j \in Jids |-> "guest"]
    /\ admins = {}
    /\ roomType = "open"
    /\ disable_auto_owners = FALSE
    /\ GuardIdle
    /\ PeersIdle
    /\ AuxIdle

SttNext ==
    \/ TrackAdded
    \/ TrackMuted
    \/ TrackUnmuted
    \/ TrackRemoved
    \/ ConferenceLeft
    \/ MeetingModeChanged
    \/ FirePendingUnmute
    \/ FireMeetingModeStart
    \/ StopCompletes

SpecStt == SttInit /\ [][SttNext]_vars

\* A timeout that is not cleared fires, and a stop that was begun completes.
SpecSttFair ==
    /\ SpecStt
    /\ WF_vars(FirePendingUnmute)
    /\ WF_vars(FireMeetingModeStart)
    /\ WF_vars(StopCompletes)

\* This step starts a recording.
Started == ~service.isRecording /\ service'.isRecording

\* C34: a delayed recording start that was pending when the local audio track was muted
\* or removed does not start a recording afterwards.
C34_InterruptedStartNeverRecords ==
    [][sttOp'.interrupted => ~Started]_vars

\* C35: a recording starts only in a step that finds the local track unmuted, no
\* recording active and meeting mode enabled; in particular never while the mode is
\* disabled.
C35_StartOnlyInMeetingMode ==
    [][Started => /\ localTrack = "unmuted"
                  /\ ~isActive(service)
                  /\ meetingModeEnabled]_vars

\* The microphone, with its mute listener registered, is open in meeting mode.
OpenInMeetingMode == localTrack = "unmuted" /\ trackListeners /\ meetingModeEnabled

\* The recording runs and no stop of it is under way.
Recording == service.isRecording /\ ~service.isStopping

\* C39: once the local microphone is unmuted in meeting mode, the recording becomes
\* active unless the microphone is muted or the mode is disabled first, also when the
\* unmute happened while a previous stop was completing.
C39_UnmutedLeadsToRecording ==
    OpenInMeetingMode ~> (Recording \/ ~OpenInMeetingMode)

\* C36: in every state of the peer, a free floor carries no cooldown timestamp:
\* currentSpeaker = null implies lastUnmuteTime = 0, also after meeting mode is
\* enabled or enabled again while a speaker was set.
C36_FreeFloorHasNoTimestamp ==
    mm.currentSpeaker = Null => mm.lastUnmuteTime = 0

\* Nothing is in flight between the peers.
Quiet ==
    /\ \A pair \in Links : trackQ[pair] = <<>>
    /\ \A p \in Ids : muteQ[p] = 0

\* The floor holder the peers should agree on: nobody when nobody is unmuted, the
\* unmuted participant when there is exactly one.
Holder == IF Transmitting = {} THEN Null ELSE CHOOSE p \in Transmitting : TRUE

\* C37: once every event has been delivered and nothing is pending, every peer's
\* currentSpeaker has the same value: null if nobody is unmuted, otherwise the one
\* unmuted participant.
C37_PeersAgreeOnSpeaker ==
    Quiet => /\ Cardinality(Transmitting) <= 1
             /\ \A p \in Ids : peers[p].mm.currentSpeaker = Holder

\* A pre-join hook of this step marks `j` so that its promotion is skipped.
PromotionSkippedFor(j) ==
    /\ stage[j] \in {"pre60", "pre50", "pre0"} /\ stage'[j] # stage[j]
    /\ ~block_moderator_promotion[j] /\ block_moderator_promotion'[j]

\* A joined hook of this step takes an elevation away from `j`.
ElevationRevertedFor(j) ==
    /\ JoinedHookRuns(j)
    /\ role[j] = "moderator" \/ affiliation[j] = "owner"
    /\ role'[j] # "moderator" /\ affiliation'[j] # "owner"

\* This step logs a line that names `j` and prints the claim that was resolved.
LoggedFor(j) == \E entry \in log' : entry.jid = j /\ entry.claim # "unnamed"

\* C32: every block decision of the guard (a promotion skipped at pre-join, an
\* elevation reverted at joined, an affiliation-set or role-set vetoed) logs a line
\* that names the participant and the resolved claim and records the block.
C32_BlockDecisionsLogged ==
    [][\A j \in Jids :
          \/ PromotionSkippedFor(j)
          \/ ElevationRevertedFor(j)
          \/ (ElevationRequested(j) /\ ev'.vetoed)
          => LoggedFor(j)]_vars

\* The participant does not carry the sentinel claim.
NonSentinel(j) == meetingRole(j) # "ADMIN"

Plain(j) == role[j] = "participant" /\ affiliation[j] = "none"

\* C31: whatever the order in which the pre-join hooks and the joined hooks of the two
\* modules ran, and wherever other modules tried to promote in between, a participant
\* without the sentinel claim ends its admission with role participant and
\* affiliation none.
C31_PlainInEveryOrder ==
    \A j \in Jids : (Admitted(j) /\ NonSentinel(j)) => Plain(j)

\* C31, amended: the same for a participant that is not a server administrator, in a
\* room that is not a healthcheck room.
C31_PlainInEveryOrderUnlessExempt ==
    \A j \in Jids :
        (Admitted(j) /\ NonSentinel(j) /\ ~is_admin(j) /\ ~is_healthcheck_room)
            => Plain(j)

\* a participant with claim USER has been admitted plain after the hooks ran against
\* their priorities, and the joined hook that ran last took away an elevation that
\* another module had applied between two pre-join hooks
C31_Witness ==
    \E j \in Jids :
        /\ ~is_healthcheck_room /\ ~is_admin(j) /\ meetingRole(j) = "USER"
        /\ ran = <<"wait_for_host:0", "wait_for_host:60", "allowners:50",
                   "wait_for_host:20", "allowners:25">>
        /\ ev = Event("joined", j, FALSE)
        /\ \E entry \in log : entry.jid = j /\ entry.decision = "BLOCKED"
        /\ Admitted(j) /\ Plain(j)

\* The token of `j` carries the sentinel claim and is one the room accepts.
SentinelHere(j) == auth_token(j) /\ meetingRole(j) = "ADMIN"

\* C33: a token-authenticated participant with meetingRole ADMIN is owner once the
\* joined hooks have run, whether or not the room already has a host and whichever
\* module's hook ran first.
C33_SentinelBecomesOwner ==
    \A j \in Jids : (Admitted(j) /\ SentinelHere(j)) => affiliation[j] = "owner"

\* C33, amended: the same for a participant that is not a server administrator, in a
\* room that is not a healthcheck room and not a moderated room the token was not
\* issued for.
C33_SentinelBecomesOwnerUnlessExempt ==
    \A j \in Jids :
        (/\ Admitted(j) /\ SentinelHere(j)
         /\ ~is_admin(j) /\ ~is_healthcheck_room
         /\ ~(is_moderated /\ ~room_matches))
            => affiliation[j] = "owner"

\* a participant with claim ADMIN has been admitted as owner to a room that already
\* had a host, the hook of mod_muc_wait_for_host having run before that of
\* mod_muc_allowners
C33_Witness ==
    \E j \in Jids :
        /\ ~is_healthcheck_room /\ ~is_admin(j) /\ SentinelHere(j)
        /\ has_host /\ \E k \in Jids \ {j} : Admitted(k)
        /\ Len(ran) = 5 /\ ran[4] = "wait_for_host:20" /\ ran[5] = "allowners:25"
        /\ ev = Event("joined", j, FALSE)
        /\ Admitted(j) /\ affiliation[j] = "owner" /\ role[j] = "moderator"

====
